---------------------------- MODULE Spec2Model ----------------------------
(***************************************************************************)
(* CatAlert backend: the AI agent's request pipeline (app/ai/agent.py),    *)
(* the POST /ai/chat endpoint (app/api/api_v1/endpoints/ai.py), the Care   *)
(* Tools statistics and the trend calculator (app/ai/tools.py).            *)
(*                                                                         *)
(* Conventions.                                                            *)
(*  - An optional Python value is a sequence: <<>> is None, <<v>> is v.    *)
(*  - A str the code transforms (the classifier label) is a sequence of    *)
(*    one-character strings, so strip() and lower() are computed.          *)
(*  - A float ratio a/b is the pair <<a, b>> with b > 0, compared by cross *)
(*    multiplication. Weights are integers in tenths of a kilogram         *)
(*    (10.6 kg is 106).                                                    *)
(*  - A dict is a TLA+ record/function; dict.get(k, d) is Get(d_, k, d).   *)
(***************************************************************************)
EXTENDS Integers, Sequences, FiniteSets, TLC

VARIABLES
    \* ---- the data store (committed rows) and the ORM session
    cats,               \* set of ids of the rows of table cats
    users,              \* rows of table users
    user_reqs,          \* requests of /users that ran their query and not yet their commit
    activity_records,   \* rows of activity_records, in the order a query returns them
    health_records,     \* rows of health_records, ordered by recorded_at
    reminders,          \* rows of reminders
    reminder_times,     \* rows of reminder_times
    now,                \* what datetime.now() returns
    ai_interactions,    \* committed rows of ai_interactions
    ai_insights,        \* committed rows of ai_insights
    db_pending,         \* objects added to the session and not yet committed
    \* ---- one call of process_user_request / chat_with_agent
    pc,                 \* position of the coroutine
    req,                \* the call's arguments
    session_id,         \* local session_id
    request_type,       \* local request_type
    context,            \* local context
    response,           \* local response (the handler's return value)
    result,             \* value returned by process_user_request
    http,               \* what chat_with_agent answers
    trace,              \* what this call did: handlers run, LLM calls, steps
    n_calls,            \* calls started so far
    \* ---- the response of the last Care Tools / trend operation
    resp

vars == << cats, users, user_reqs, activity_records, health_records, reminders,
           reminder_times, now, ai_interactions, ai_insights,
           db_pending, pc, req, session_id, request_type, context, response,
           result, http, trace, n_calls, resp >>

-----------------------------------------------------------------------------
(* Python values *)

None == << >>
Some(v) == << v >>

\* Python truthiness of an optional number: None and 0 are falsy.
Truthy(o) == o # None /\ o[1] # 0

\* dict.get(key, default)
Get(d, key, default) == IF key \in DOMAIN d THEN d[key] ELSE default

\* a/b as a pair with a positive denominator
Rat(a, b) == IF b < 0 THEN << 0 - a, 0 - b >> ELSE << a, b >>
RatLess(x, y) == x[1] * y[2] < y[1] * x[2]
RatAdd(x, y) == << x[1] * y[2] + y[1] * x[2], x[2] * y[2] >>

-----------------------------------------------------------------------------
(* Care Tools: app/ai/tools.py.  A tool either returns a value or raises. *)

Ok(v) == [ok |-> TRUE, value |-> v]
Raise(class, message) ==
    [ok |-> FALSE, error |-> [class |-> class, message |-> message]]

CatDataActivityDays == 7
CatDataHealthDays == 30
WeightMinRecords == 2
ActivityMinRecords == 7
CompletionMinRecords == 14
TrendWindow == 7

RECURSIVE SumSeq(_)
SumSeq(s) == IF s = << >> THEN 0 ELSE Head(s) + SumSeq(Tail(s))

\* len([a for a in acts if a.status.value == "completed"])
CountCompleted(acts) == Len(SelectSeq(acts, LAMBDA a: a.status = "completed"))

\* python slices s[-n:] and s[:n] for 0 < n <= len(s), and s[-14:-7]
LastN(s, n) == SubSeq(s, Len(s) - n + 1, Len(s))
FirstN(s, n) == SubSeq(s, 1, n)

\* sum(a.actual_duration or 0 for a in acts)
DurationOrZero(acts) ==
    [i \in DOMAIN acts |->
        IF Truthy(acts[i].actual_duration) THEN acts[i].actual_duration[1] ELSE 0]

\* the ratio computed without the guard on an empty window
CompletionRate_Unguarded(completed_activities, total_activities) ==
    << completed_activities, total_activities >>

\* tools.py 41-43: completed / total if total > 0 else 0
CompletionRate(completed_activities, total_activities) ==
    IF total_activities > 0
    THEN Rat(completed_activities, total_activities)
    ELSE Rat(0, 1)

\* the weight thresholds written >= and <=, so that a change of exactly 5%
\* is a trend
WeightTrend_TiesAreTrends(hrecs) ==
    LET weight_records ==
            SelectSeq(hrecs, LAMBDA r: r.record_type = "weight" /\ Truthy(r.value))
    IN  IF Len(weight_records) >= 2
        THEN LET recent_weight == weight_records[Len(weight_records)].value[1]
                 older_weight == weight_records[1].value[1]
                 weight_change == Rat(recent_weight - older_weight, older_weight)
             IN  IF ~RatLess(weight_change, Rat(5, 100)) THEN "increasing"
                 ELSE IF ~RatLess(Rat(-5, 100), weight_change) THEN "decreasing"
                 ELSE "stable"
        ELSE "stable"

\* tools.py 286-296: weight trend over the records the filter keeps
WeightRecords(hrecs) ==
    SelectSeq(hrecs, LAMBDA r: r.record_type = "weight" /\ Truthy(r.value))

WeightTrend(hrecs) ==
    LET weight_records == WeightRecords(hrecs) IN
    IF Len(weight_records) >= WeightMinRecords
    THEN LET recent_weight == weight_records[Len(weight_records)].value[1]
             older_weight == weight_records[1].value[1]
             weight_change == Rat(recent_weight - older_weight, older_weight)
         IN  IF RatLess(Rat(5, 100), weight_change) THEN "increasing"
             ELSE IF RatLess(weight_change, Rat(-5, 100)) THEN "decreasing"
             ELSE "stable"
    ELSE "stable"

\* the duration trend with a boundary value counted as a change
ActivityTrend_TiesChange(acts) ==
    IF Len(acts) >= ActivityMinRecords
    THEN LET recent_avg_duration ==
                 Rat(SumSeq(DurationOrZero(LastN(acts, TrendWindow))), TrendWindow)
             older_avg_duration ==
                 Rat(SumSeq(DurationOrZero(FirstN(acts, TrendWindow))), TrendWindow)
             times(x, r) == Rat(x[1] * r[1], x[2] * r[2])
         IN  IF ~RatLess(recent_avg_duration, times(older_avg_duration, Rat(11, 10)))
             THEN "increasing"
             ELSE IF ~RatLess(times(older_avg_duration, Rat(9, 10)), recent_avg_duration)
             THEN "decreasing"
             ELSE "stable"
    ELSE "stable"

\* tools.py 298-309: mean duration of the last 7 against the first 7
ActivityTrend(acts) ==
    IF Len(acts) >= ActivityMinRecords
    THEN LET recent_avg_duration ==
                 Rat(SumSeq(DurationOrZero(LastN(acts, TrendWindow))), TrendWindow)
             older_avg_duration ==
                 Rat(SumSeq(DurationOrZero(FirstN(acts, TrendWindow))), TrendWindow)
             times(x, r) == Rat(x[1] * r[1], x[2] * r[2])
         IN  IF RatLess(times(older_avg_duration, Rat(11, 10)), recent_avg_duration)
             THEN "increasing"
             ELSE IF RatLess(recent_avg_duration, times(older_avg_duration, Rat(9, 10)))
             THEN "decreasing"
             ELSE "stable"
    ELSE "stable"

\* the completion-rate trend computed from 13 records on (python's
\* acts[-14:-7] of 13 records is their first 6)
CompletionRateTrend_FromThirteen(acts) ==
    IF Len(acts) >= 13
    THEN LET recent_activities == LastN(acts, 7)
             older_activities ==
                 SubSeq(acts, IF Len(acts) >= 14 THEN Len(acts) - 13 ELSE 1,
                        Len(acts) - 7)
             recent_completion ==
                 Rat(CountCompleted(recent_activities), Len(recent_activities))
             older_completion ==
                 Rat(CountCompleted(older_activities), Len(older_activities))
         IN  IF RatLess(RatAdd(older_completion, Rat(1, 10)), recent_completion)
             THEN "improving"
             ELSE IF RatLess(recent_completion, RatAdd(older_completion, Rat(-1, 10)))
             THEN "declining"
             ELSE "stable"
    ELSE "stable"

\* tools.py 311-322: completed ratio of the last 7 against the 7 before them
CompletionRateTrend(acts) ==
    IF Len(acts) >= CompletionMinRecords
    THEN LET recent_activities == LastN(acts, TrendWindow)
             older_activities == SubSeq(acts, Len(acts) - 2 * TrendWindow + 1,
                                        Len(acts) - TrendWindow)
             recent_completion ==
                 Rat(CountCompleted(recent_activities), Len(recent_activities))
             older_completion ==
                 Rat(CountCompleted(older_activities), Len(older_activities))
         IN  IF RatLess(RatAdd(older_completion, Rat(1, 10)), recent_completion)
             THEN "improving"
             ELSE IF RatLess(recent_completion, RatAdd(older_completion, Rat(-1, 10)))
             THEN "declining"
             ELSE "stable"
    ELSE "stable"

calculate_health_trends(hrecs, acts) ==
    [ weight_trend |-> WeightTrend(hrecs),
      activity_trend |-> ActivityTrend(acts),
      completion_rate_trend |-> CompletionRateTrend(acts),
      health_score_trend |-> "stable" ]

\* rows of one cat created within the last `days` days
InWindow(rows, cat_id, days) ==
    SelectSeq(rows, LAMBDA r: r.cat_id = cat_id /\ r.age <= days)

CatExists(cat_id) == \E c \in cats : c.id = cat_id

\* tools.py 46-47: durations = [a.actual_duration for a in acts if
\* a.actual_duration]; sum(durations) / len(durations) if durations else 0
AvgDuration(acts) ==
    LET durations == SelectSeq(acts, LAMBDA a: Truthy(a.actual_duration))
    IN  IF durations # << >>
        THEN Rat(SumSeq([ i \in DOMAIN durations |-> durations[i].actual_duration[1] ]),
                 Len(durations))
        ELSE << 0, 1 >>

\* tools.py 21-83.  db_ok: whether the queries' round trips succeed.
get_cat_data(cat_id, db_ok) ==
    IF ~db_ok \/ ~CatExists(cat_id)
    THEN Raise("AIAgentError", "Failed to get cat data")
    ELSE LET recent_activities ==
                 InWindow(activity_records, cat_id, CatDataActivityDays)
             hrecs == InWindow(health_records, cat_id, CatDataHealthDays)
             total_activities == Len(recent_activities)
             completed_activities == CountCompleted(recent_activities)
         IN  Ok([ id |-> cat_id,
                  recent_activities |-> recent_activities,
                  statistics |->
                    [ total_activities_7d |-> total_activities,
                      completion_rate |->
                          CompletionRate(completed_activities, total_activities),
                      avg_activity_duration |-> AvgDuration(recent_activities),
                      health_records_30d |-> Len(hrecs) ] ])

\* tools.py 175-198
get_recent_activities(cat_id, days, db_ok) ==
    IF ~db_ok THEN Raise("AIAgentError", "Failed to get recent activities")
    ELSE Ok(InWindow(activity_records, cat_id, days))

\* tools.py 145-173
analyze_health_trend(cat_id, days, db_ok) ==
    IF ~db_ok THEN Raise("AIAgentError", "Failed to analyze health trend")
    ELSE LET hrecs == InWindow(health_records, cat_id, days)
             acts == InWindow(activity_records, cat_id, days)
         IN  Ok([ cat_id |-> cat_id,
                  analysis_period_days |-> days,
                  health_records_count |-> Len(hrecs),
                  activity_records_count |-> Len(acts),
                  trends |-> calculate_health_trends(hrecs, acts) ])

-----------------------------------------------------------------------------
(* str: a sequence of one-character strings *)

Whitespace == { " ", "\t", "\n" }

UpperCase == << "A", "B", "C", "D", "E", "F", "G", "H", "I", "J", "K", "L", "M", "N", "O", "P", "Q", "R", "S", "T", "U", "V", "W", "X", "Y", "Z" >>
LowerCase == << "a", "b", "c", "d", "e", "f", "g", "h", "i", "j", "k", "l", "m", "n", "o", "p", "q", "r", "s", "t", "u", "v", "w", "x", "y", "z" >>

\* str.lower() on one character
LowerChar(c) ==
    IF \E i \in DOMAIN UpperCase : UpperCase[i] = c
    THEN LowerCase[CHOOSE i \in DOMAIN UpperCase : UpperCase[i] = c]
    ELSE c

Lower(s) == [i \in DOMAIN s |-> LowerChar(s[i])]

RECURSIVE LStrip(_)
LStrip(s) == IF s # << >> /\ Head(s) \in Whitespace THEN LStrip(Tail(s)) ELSE s

RECURSIVE RStrip(_)
RStrip(s) ==
    IF s # << >> /\ s[Len(s)] \in Whitespace
    THEN RStrip(SubSeq(s, 1, Len(s) - 1))
    ELSE s

\* str.strip()
Strip(s) == RStrip(LStrip(s))

SIMPLE_QUERY == << "s", "i", "m", "p", "l", "e", "_", "q", "u", "e", "r", "y" >>
COMPLEX_ANALYSIS == << "c", "o", "m", "p", "l", "e", "x", "_", "a", "n", "a", "l", "y", "s", "i", "s" >>
REMINDER_MANAGEMENT == << "r", "e", "m", "i", "n", "d", "e", "r", "_", "m", "a", "n", "a", "g", "e", "m", "e", "n", "t" >>
HEALTH_CONSULTATION == << "h", "e", "a", "l", "t", "h", "_", "c", "o", "n", "s", "u", "l", "t", "a", "t", "i", "o", "n" >>
GENERAL == << "g", "e", "n", "e", "r", "a", "l" >>
ERROR_TYPE == << "e", "r", "r", "o", "r" >>

\* Completions of the classifier that are a label in other case or with
\* surrounding whitespace, and completions that are no label
LabelPaddedSimple == << " ", "S", "i", "m", "p", "l", "e", "_", "Q", "u", "e", "r", "y", "\n" >>
LabelUpperComplex == << "C", "O", "M", "P", "L", "E", "X", "_", "A", "N", "A", "L", "Y", "S", "I", "S" >>
LabelTrailingReminder == << "r", "e", "m", "i", "n", "d", "e", "r", "_", "m", "a", "n", "a", "g", "e", "m", "e", "n", "t", " " >>
LabelTabHealth == << "\t", "H", "e", "a", "l", "t", "h", "_", "C", "o", "n", "s", "u", "l", "t", "a", "t", "i", "o", "n" >>
LabelInnerSpace == << "s", "i", "m", "p", "l", "e", " ", "q", "u", "e", "r", "y" >>
LabelChat == << "c", "h", "a", "t" >>

\* What the classification completion may hold
LabelContents ==
    { SIMPLE_QUERY, LabelPaddedSimple, LabelUpperComplex, LabelTrailingReminder,
      LabelTabHealth, GENERAL, LabelInnerSpace, LabelChat, << >> }

-----------------------------------------------------------------------------
(* The agent: app/ai/agent.py *)

MaxCalls == 1

EmptyDict == << >>

\* Outcomes of one LLMService.chat_completion call (llm_service.py 25-83): the
\* API raises, or the completion is plain text, a JSON object or a JSON array.
LLMOutcomes == { "api_error", "text", "json_object", "json_list" }

\* agent.py 76-85: the if/elif chain over request_type
HandlerFor(rtype) ==
    IF rtype = SIMPLE_QUERY THEN "simple_query"
    ELSE IF rtype = COMPLEX_ANALYSIS THEN "complex_analysis"
    ELSE IF rtype = REMINDER_MANAGEMENT THEN "reminder_management"
    ELSE IF rtype = HEALTH_CONSULTATION THEN "health_consultation"
    ELSE "general"

\* the label used as returned, neither trimmed nor lower-cased
NormalizeLabel_Raw(content) == content

\* agent.py 140: response["content"].strip().lower()
NormalizeLabel(content) == Lower(Strip(content))

\* llm_service.py 78-83: what chat_completion raises
LLMError == Raise("ExternalServiceError", "External service OpenAI error")

\* agent.py 164-188: one chat completion, returned as the message
handle_simple_query(ctx, llm) ==
    IF llm = "api_error" THEN LLMError
    ELSE Ok([ message |-> "completion", type |-> "simple_query" ])

\* agent.py 302-319: one chat completion, returned as the message
handle_general_query(ctx, llm) ==
    IF llm = "api_error" THEN LLMError
    ELSE Ok([ message |-> "completion", type |-> "general" ])

\* agent.py 190-224 with llm_service.py 85-130: a completion that is no JSON
\* gives the fallback analysis; a JSON value that is no object has no .get
handle_complex_analysis(ctx, llm) ==
    IF llm = "api_error" THEN LLMError
    ELSE IF llm = "json_list"
    THEN Raise("AttributeError", "'list' object has no attribute 'get'")
    ELSE Ok([ message |-> "analysis_template", type |-> "complex_analysis" ])

\* agent.py 226-254 with llm_service.py 132-171: a completion that is no JSON
\* gives no suggestions; s['title'] fails on the keys of a JSON object
handle_reminder_management(ctx, llm) ==
    IF llm = "api_error" THEN LLMError
    ELSE IF llm = "json_object"
    THEN Raise("TypeError", "string indices must be integers")
    ELSE Ok([ message |-> "reminder_template", type |-> "reminder_management" ])

\* the completion-rate test written <= 0.5
UrgentIssues_AtMostHalf(ctx) ==
    LET cat_data == Get(ctx, "cat_data", EmptyDict)
        health_trends == Get(ctx, "health_trends", EmptyDict)
        completion_rate ==
            Get(Get(cat_data, "statistics", EmptyDict), "completion_rate", Rat(1, 1))
        weight_trend ==
            Get(Get(health_trends, "trends", EmptyDict), "weight_trend", "None")
    IN  (IF ~RatLess(Rat(1, 2), completion_rate)
         THEN << "completion_rate_low" >> ELSE << >>)
        \o (IF weight_trend = "decreasing"
            THEN << "weight_decreasing" >> ELSE << >>)

\* agent.py 267-273: the urgent-issue list
UrgentIssues(ctx) ==
    LET cat_data == Get(ctx, "cat_data", EmptyDict)
        health_trends == Get(ctx, "health_trends", EmptyDict)
        completion_rate ==
            Get(Get(cat_data, "statistics", EmptyDict), "completion_rate", Rat(1, 1))
        weight_trend ==
            Get(Get(health_trends, "trends", EmptyDict), "weight_trend", "None")
    IN  (IF RatLess(completion_rate, Rat(1, 2))
         THEN << "completion_rate_low" >> ELSE << >>)
        \o (IF weight_trend = "decreasing"
            THEN << "weight_decreasing" >> ELSE << >>)

\* agent.py 256-300: no LLM call
handle_health_consultation(ctx) ==
    LET urgent_issues == UrgentIssues(ctx) IN
    Ok([ message |-> IF urgent_issues # << >>
                     THEN "urgent_template" ELSE "healthy_template",
         type |-> "health_consultation",
         urgent_issues |-> urgent_issues ])

\* the handler's return value or exception
RunHandler(h, ctx, llm) ==
    IF h = "simple_query" THEN handle_simple_query(ctx, llm)
    ELSE IF h = "complex_analysis" THEN handle_complex_analysis(ctx, llm)
    ELSE IF h = "reminder_management" THEN handle_reminder_management(ctx, llm)
    ELSE IF h = "health_consultation" THEN handle_health_consultation(ctx)
    ELSE handle_general_query(ctx, llm)

\* a handler that repeats its chat completion once
HandlerLLMCalls_Retried(h) == IF h = "health_consultation" THEN 0 ELSE 2

\* chat completions a handler makes
HandlerLLMCalls(h) == IF h = "health_consultation" THEN 0 ELSE 1

\* _build_context without its try/except: a failed lookup propagates
build_context_NoExcept(cat_id, failing) ==
    LET cat_data == get_cat_data(cat_id, failing # "get_cat_data")
        recent_activities ==
            get_recent_activities(cat_id, 7, failing # "get_recent_activities")
        health_trends ==
            analyze_health_trend(cat_id, 30, failing # "analyze_health_trend")
    IN  IF ~cat_data.ok THEN cat_data
        ELSE IF ~recent_activities.ok THEN recent_activities
        ELSE IF ~health_trends.ok THEN health_trends
        ELSE Ok([ cat_data |-> cat_data.value,
                  recent_activities |-> recent_activities.value,
                  health_trends |-> health_trends.value ])

\* agent.py 142-162.  failing: the lookup whose query fails, or "none".
\* The try/except turns a failed lookup into the context {error: message}.
build_context(cat_id, failing) ==
    LET cat_data == get_cat_data(cat_id, failing # "get_cat_data")
        recent_activities ==
            get_recent_activities(cat_id, 7, failing # "get_recent_activities")
        health_trends ==
            analyze_health_trend(cat_id, 30, failing # "analyze_health_trend")
    IN  IF ~cat_data.ok THEN Ok([ error |-> cat_data.error.message ])
        ELSE IF ~recent_activities.ok
        THEN Ok([ error |-> recent_activities.error.message ])
        ELSE IF ~health_trends.ok THEN Ok([ error |-> health_trends.error.message ])
        ELSE Ok([ cat_data |-> cat_data.value,
                  recent_activities |-> recent_activities.value,
                  health_trends |-> health_trends.value ])

\* The classes the pipeline's steps raise; all derive from Exception
\* (core/exceptions.py 7, 70, 82; the others are built in).
ExceptionClasses ==
    { "AIAgentError", "ExternalServiceError", "AttributeError", "TypeError" }

\* a top level that catches the application's own errors only
TopLevelCatches_OwnErrors(e) == e.class \in { "AIAgentError", "ExternalServiceError" }

\* agent.py 112: except Exception
TopLevelCatches(e) == e.class \in ExceptionClasses

\* agent.py 113-118: the failure response
ErrorResult(e) == [ success |-> FALSE, message |-> e.message, type |-> ERROR_TYPE ]

\* agent.py 102-110
SuccessResult(resp_, rtype, sid, ms) ==
    [ success |-> TRUE, message |-> resp_.message, type |-> rtype,
      session_id |-> sid, processing_time_ms |-> ms,
      suggestions |-> Get(resp_, "suggestions", << >>),
      insights |-> Get(resp_, "insights", << >>) ]

\* a commit that loses the pending objects
Commit_Lost(rows, pending) == rows

\* Session.commit with the pending objects: the rows after it
Commit(rows, pending) == rows \o pending

\* a failure handler that does not roll back
Rollback_Missing(pending) == pending

\* Session.rollback: the pending objects after it
Rollback(pending) == << >>

-----------------------------------------------------------------------------
(* State of the store the agent reads *)

\* models/activity.py 23-50: a row of activity_records (age stands for created_at)
Activity(cat_id, status, age) ==
    [ cat_id |-> cat_id, status |-> status, age |-> age, actual_duration |-> None,
      complete_time |-> None, notes |-> None, quality_rating |-> None,
      updated_at |-> None ]

\* models/health.py 13-54: a row of health_records (age stands for created_at)
Health(cat_id, record_type, value, age) ==
    [ cat_id |-> cat_id, record_type |-> record_type, value |-> value, age |-> age,
      notes |-> None, updated_at |-> None ]

\* a row of users: the columns users.py 102-109 and 139 write
User(id, username, email) ==
    [ id |-> id, username |-> username, email |-> email, updated_at |-> None ]

UserExists(user_id) == \E u \in users : u.id = user_id

\* the sessions that serve requests of /users at the same time
UserSessions == { "s1", "s2" }

NoUserRequests == [ s \in UserSessions |-> None ]

\* models/cat.py: a row of cats
Cat(id, is_active) ==
    [ id |-> id, owner_id |-> "u1", is_active |-> is_active, updated_at |-> None ]

Repeat(x, n) == [i \in 1..n |-> x]

\* Stores the agent is run against: no records at all; 2 of 5 activities
\* completed and a weight loss of 7%; 9 of 10 completed and a weight gain of 2%;
\* 1 of 2 completed and a weight loss of 7%.
Scenarios ==
    { [ acts |-> << >>, health |-> << >> ],
      [ acts |-> Repeat(Activity("c1", "completed", 1), 2)
                 \o Repeat(Activity("c1", "pending", 1), 3),
        health |-> << Health("c1", "weight", Some(100), 3),
                      Health("c1", "weight", Some(93), 1) >> ],
      [ acts |-> Repeat(Activity("c1", "completed", 1), 9)
                 \o << Activity("c1", "skipped", 1) >>,
        health |-> << Health("c1", "weight", Some(100), 3),
                      Health("c1", "weight", Some(102), 1) >> ],
      [ acts |-> << Activity("c1", "completed", 1), Activity("c1", "expired", 1) >>,
        health |-> << Health("c1", "weight", Some(100), 3),
                      Health("c1", "temperature", Some(385), 2),
                      Health("c1", "weight", Some(93), 1) >> ] }

UserIds == { "u1", "u9" }
CatIds == { "c1", "c9" }
\* session_id argument: absent, or a client's session id
SessionArgs == { None, Some(<< "client", 1 >>) }
\* str(uuid.uuid4()) of call n
Uuid4(n) == << "uuid4", n >>

\* int((datetime.now() - start_time).total_seconds() * 1000)
ElapsedMs == { 0, 40 }

\* What a call did: the classifier's completion, the handlers run with the
\* context each was given, the chat completions made, the steps taken, the
\* failed lookup, the exception the top level caught, the outcome of the store,
\* and the number of committed rows when the call began.
NoTrace ==
    [ label |-> None, handlers |-> << >>, llm_calls |-> 0, steps |-> << >>,
      failing |-> "none", exc |-> None, stored |-> "no", rows_before |-> 0 ]

InitStore(sc) ==
    /\ cats = { Cat("c1", TRUE) }
    /\ users = { User("u1", "ann", "ann@cat") }
    /\ user_reqs = NoUserRequests
    /\ activity_records = sc.acts
    /\ health_records = sc.health
    /\ reminders = << >>
    /\ reminder_times = << >>
    /\ now = 0
    /\ ai_interactions = << >>
    /\ ai_insights = << >>
    /\ db_pending = << >>

InitCall ==
    /\ pc = "idle"
    /\ req = None
    /\ session_id = None
    /\ request_type = None
    /\ context = None
    /\ response = None
    /\ result = None
    /\ http = None
    /\ trace = NoTrace
    /\ n_calls = 0

Init ==
    /\ \E sc \in Scenarios : InitStore(sc)
    /\ InitCall
    /\ resp = None

store_vars == << cats, users, user_reqs, activity_records, health_records, reminders,
                reminder_times, now, ai_insights >>

\* agent.py 62-67: entry of process_user_request, up to the classifier call
EnterProcess(via, user_id, cat_id, sid) ==
    /\ req' = [ via |-> via, user_id |-> user_id, cat_id |-> cat_id,
                user_input |-> "input", session_id |-> sid ]
    /\ session_id' = IF sid = None THEN Uuid4(n_calls + 1) ELSE sid[1]
    /\ pc' = "classify"
    /\ http' = None
    /\ trace' = [ NoTrace EXCEPT !.rows_before = Len(ai_interactions) ]

\* leave process_user_request with value r
Return(r) ==
    /\ result' = r
    /\ pc' = IF req.via = "http" THEN "returned" ELSE "done"

\* agent.py 112-118: an exception e left a step of the try block
Except(e) ==
    IF TopLevelCatches(e)
    THEN Return(ErrorResult(e))
    ELSE /\ result' = None
         /\ pc' = IF req.via = "http" THEN "raised" ELSE "propagated"

\* ai.py 52-77: POST /ai/chat validates the user and the cat, then calls the agent
ChatWithAgent(user_id, cat_id, sid) ==
    /\ pc \in { "idle", "done" }
    /\ n_calls < MaxCalls
    /\ n_calls' = n_calls + 1
    /\ request_type' = None /\ context' = None /\ response' = None /\ result' = None
    /\ IF ~UserExists(user_id) \/ ~CatExists(cat_id)
       THEN /\ req' = [ via |-> "http", user_id |-> user_id, cat_id |-> cat_id,
                        user_input |-> "input", session_id |-> sid ]
            /\ http' = [ status |-> 404, detail |-> "not found" ]
            /\ pc' = "done"
            /\ session_id' = None
            /\ trace' = [ NoTrace EXCEPT !.rows_before = Len(ai_interactions) ]
       ELSE EnterProcess("http", user_id, cat_id, sid)
    /\ UNCHANGED << store_vars, ai_interactions, db_pending, resp >>

\* agent.py 54: process_user_request called by code other than the endpoint
ProcessUserRequest(cat_id, sid) ==
    /\ pc \in { "idle", "done" }
    /\ n_calls < MaxCalls
    /\ n_calls' = n_calls + 1
    /\ request_type' = None /\ context' = None /\ response' = None /\ result' = None
    /\ EnterProcess("direct", "u1", cat_id, sid)
    /\ UNCHANGED << store_vars, ai_interactions, db_pending, resp >>

Step(name) == [ trace EXCEPT !.steps = Append(@, name) ]

\* agent.py 70, 120-140: the classifier's completion raises, has no content
\* (None has no strip), or holds a label
ClassifyRequest ==
    /\ pc = "classify"
    /\ \/ \E r \in { LLMError,
                     Raise("AttributeError", "'NoneType' object has no attribute 'strip'") } :
            /\ Except(r.error)
            /\ request_type' = None
            /\ trace' = [ Step("classify") EXCEPT !.llm_calls = @ + 1,
                                                  !.exc = r.error ]
       \/ \E content \in LabelContents :
            /\ request_type' = NormalizeLabel(content)
            /\ pc' = "context"
            /\ result' = None
            /\ trace' = [ Step("classify") EXCEPT !.llm_calls = @ + 1,
                                                  !.label = Some(content) ]
    /\ UNCHANGED << store_vars, ai_interactions, db_pending, req, session_id,
                    context, response, http, n_calls, resp >>

\* agent.py 73, 142-162
BuildContext ==
    /\ pc = "context"
    /\ \E failing \in { "none", "get_cat_data", "get_recent_activities",
                        "analyze_health_trend" } :
         LET r == build_context(req.cat_id, failing) IN
         IF r.ok
         THEN /\ context' = r.value
              /\ pc' = "dispatch"
              /\ result' = None
              /\ trace' = [ Step("context") EXCEPT !.failing = failing ]
         ELSE /\ context' = None
              /\ Except(r.error)
              /\ trace' = [ Step("context") EXCEPT !.failing = failing,
                                                   !.exc = r.error ]
    /\ UNCHANGED << store_vars, ai_interactions, db_pending, req, session_id,
                    request_type, response, http, n_calls, resp >>

\* agent.py 76-85: the selected handler runs and returns or raises
Dispatch ==
    /\ pc = "dispatch"
    /\ \E llm \in LLMOutcomes :
         LET h == HandlerFor(request_type)
             r == RunHandler(h, context, llm)
             ran == [ Step("handler") EXCEPT
                        !.handlers = Append(@, [ name |-> h, context |-> context ]),
                        !.llm_calls = @ + HandlerLLMCalls(h) ]
         IN  IF r.ok
             THEN /\ response' = r.value
                  /\ pc' = "store"
                  /\ result' = None
                  /\ trace' = ran
             ELSE /\ response' = None
                  /\ Except(r.error)
                  /\ trace' = [ ran EXCEPT !.exc = r.error ]
    /\ UNCHANGED << store_vars, ai_interactions, db_pending, req, session_id,
                    request_type, context, http, n_calls, resp >>

\* agent.py 362-372
NewInteraction(ms) ==
    [ id |-> n_calls, user_id |-> req.user_id, cat_id |-> req.cat_id,
      session_id |-> session_id, interaction_type |-> request_type,
      user_input |-> req.user_input, ai_response |-> response.message,
      context |-> context, processing_time_ms |-> ms ]

\* the foreign keys of ai_interactions (models/ai_interaction.py 18-19)
ForeignKeysHold(row) == UserExists(row.user_id) /\ CatExists(row.cat_id)

\* agent.py 349-379: add and commit; a failure is logged and rolled back.
\* commit_ok: whether the store accepts the commit.  The rows and the pending
\* objects after the call, and whether the row was committed.
store_interaction(row, commit_ok) ==
    LET pending == Append(db_pending, row) IN
    IF commit_ok /\ \A i \in DOMAIN pending : ForeignKeysHold(pending[i])
    THEN [ rows |-> Commit(ai_interactions, pending), pending |-> << >>,
           stored |-> "committed" ]
    ELSE [ rows |-> ai_interactions, pending |-> Rollback(pending),
           stored |-> "rolled_back" ]

\* agent.py 87-110: store the interaction, then return the success response
StoreInteraction ==
    /\ pc = "store"
    /\ \E commit_ok \in BOOLEAN, ms \in ElapsedMs :
         LET s == store_interaction(NewInteraction(ms), commit_ok) IN
         /\ ai_interactions' = s.rows
         /\ db_pending' = s.pending
         /\ trace' = [ trace EXCEPT !.steps = @ \o << "store", "respond" >>,
                                    !.stored = s.stored ]
         /\ Return(SuccessResult(response, request_type, session_id, ms))
    /\ UNCHANGED << store_vars, req, session_id, request_type, context, response,
                    http, n_calls, resp >>

\* ai.py 28-36: the fields ChatResponse requires (those without a default)
ChatResponseRequired ==
    { "success", "message", "type", "session_id", "processing_time_ms" }

\* ai.py 79-87: ChatResponse(**result); a validation error is an Exception,
\* answered with status 500
chat_response(r) ==
    IF ChatResponseRequired \subseteq DOMAIN r
    THEN [ status |-> 200, body |-> r ]
    ELSE [ status |-> 500, detail |-> "Internal server error" ]

\* ai.py 79-87: the endpoint answers: the agent returned, or raised
ChatRespond ==
    /\ pc \in { "returned", "raised" }
    /\ http' = IF pc = "returned" THEN chat_response(result)
               ELSE [ status |-> 500, detail |-> "Internal server error" ]
    /\ pc' = "done"
    /\ UNCHANGED << store_vars, ai_interactions, db_pending, req, session_id,
                    request_type, context, response, result, trace, n_calls, resp >>

Next ==
    \/ \E u \in UserIds, c \in CatIds, sid \in SessionArgs : ChatWithAgent(u, c, sid)
    \/ \E c \in CatIds, sid \in SessionArgs : ProcessUserRequest(c, sid)
    \/ ClassifyRequest
    \/ BuildContext
    \/ Dispatch
    \/ StoreInteraction
    \/ ChatRespond

Spec == Init /\ [][Next]_vars

-----------------------------------------------------------------------------
(* Properties of the agent pipeline, checked under Spec *)

\* the call entered process_user_request and left it
Finished ==
    /\ pc \in { "returned", "done", "raised", "propagated" }
    /\ trace.steps # << >>

RowsAdded == Len(ai_interactions) - trace.rows_before

HandlerDispatched == trace.handlers # << >>

\* the handler the spec names for a completion of the classifier
ExpectedHandler(content) ==
    IF content \in { SIMPLE_QUERY, LabelPaddedSimple } THEN "simple_query"
    ELSE IF content = LabelUpperComplex THEN "complex_analysis"
    ELSE IF content = LabelTrailingReminder THEN "reminder_management"
    ELSE IF content = LabelTabHealth THEN "health_consultation"
    ELSE "general"

LookupMessages ==
    { "Failed to get cat data", "Failed to get recent activities",
      "Failed to analyze health trend" }

\* C1: process_user_request never raises: whatever the classifier call, the
\* handler or another step does, the call ends with a response, and whenever an
\* exception left a step the response has success = false and type "error".
C1_NeverRaises ==
    /\ pc \notin { "raised", "propagated" }
    /\ Finished => result # None /\ "success" \in DOMAIN result
    /\ Finished /\ trace.exc # None =>
          /\ result.success = FALSE
          /\ result.type = ERROR_TYPE

\* C1 witness: a handler raised a built-in error and the call returned the
\* failure response
C1_Witness ==
    /\ Finished
    /\ HandlerDispatched
    /\ trace.exc # None
    /\ trace.exc.class \in { "AttributeError", "TypeError" }
    /\ result.success = FALSE

C3_FailureIsAPayload ==
    pc = "done" /\ req.via = "http" /\ result # None /\ result.success = FALSE =>
        /\ http.status = 200
        /\ http.body.success = FALSE

\* C4: dispatch runs exactly one handler per request: the one named by the
\* trimmed, lower-cased label for the four specific intents, the general
\* handler for every other label.
C4_DispatchByLabel ==
    /\ Len(trace.handlers) <= 1
    /\ pc = "store" \/ (Finished /\ context # None) => Len(trace.handlers) = 1
    /\ HandlerDispatched =>
          trace.handlers[1].name = ExpectedHandler(trace.label[1])

\* C4 witness: a label with other case and surrounding whitespace reached the
\* simple_query handler
C4_Witness ==
    /\ HandlerDispatched
    /\ trace.label = Some(LabelPaddedSimple)
    /\ trace.handlers[1].name = "simple_query"

\* C5: when the store of the interaction fails, the session is rolled back, no
\* AIInteraction is persisted, and the call still returns success = true with
\* the handler's message, the request type and the session id.
C5_StoreFailureKeepsResponse ==
    trace.stored = "rolled_back" =>
        /\ db_pending = << >>
        /\ RowsAdded = 0
        /\ result # None
        /\ result.success = TRUE
        /\ result.message = response.message
        /\ result.type = request_type
        /\ result.session_id = session_id
        /\ req.session_id # None => result.session_id = req.session_id[1]

\* C5 witness: the commit failed for a request with a client session id
C5_Witness ==
    /\ trace.stored = "rolled_back"
    /\ req.session_id # None
    /\ CatExists(req.cat_id)
    /\ result.success = TRUE

\* the context step ran and one of its lookups failed
LookupFailed ==
    /\ Len(trace.steps) >= 2
    /\ trace.failing # "none" \/ ~CatExists(req.cat_id)

\* C6: when a lookup of _build_context fails, the context is {error: message},
\* the handler the classifier selected is still run, with that context, and the
\* request does not fail because of the lookup.
C6_LookupFailureDegrades ==
    LookupFailed =>
        /\ context # None
        /\ DOMAIN context = { "error" }
        /\ context.error \in LookupMessages
        /\ pc # "dispatch" =>
              trace.handlers = << [ name |-> ExpectedHandler(trace.label[1]),
                                    context |-> context ] >>
        /\ Finished =>
              \/ trace.exc = None /\ result.success = TRUE
              \/ /\ trace.exc # None
                 /\ trace.exc.message \notin LookupMessages

\* C6 witness: analyze_health_trend failed and the request succeeded
C6_Witness ==
    /\ Finished
    /\ trace.failing = "analyze_health_trend"
    /\ HandlerDispatched
    /\ result.success = TRUE

\* the health_consultation handler has returned
ConsultationReturned == response # None /\ response.type = "health_consultation"

\* C7: the health_consultation handler makes no LLM call; its urgent-issue list
\* has one entry when completion_rate < 0.5 plus one when the weight trend is
\* decreasing; the urgent template is returned iff the list is non-empty.
C7_HealthConsultationTriage ==
    ConsultationReturned =>
        LET ctx == trace.handlers[1].context
            low_rate ==
                /\ "cat_data" \in DOMAIN ctx
                /\ 2 * ctx.cat_data.statistics.completion_rate[1]
                      < ctx.cat_data.statistics.completion_rate[2]
            falling ==
                /\ "health_trends" \in DOMAIN ctx
                /\ ctx.health_trends.trends.weight_trend = "decreasing"
            issues == response.urgent_issues
        IN  /\ trace.llm_calls = 1
            /\ Len(issues) = (IF low_rate THEN 1 ELSE 0) + (IF falling THEN 1 ELSE 0)
            /\ low_rate <=> \E i \in DOMAIN issues : issues[i] = "completion_rate_low"
            /\ falling <=> \E i \in DOMAIN issues : issues[i] = "weight_decreasing"
            /\ response.message =
                  IF issues # << >> THEN "urgent_template" ELSE "healthy_template"

\* C7 witness: completion rate 2/5 and a decreasing weight give two issues and
\* the urgent template
C7_Witness ==
    /\ ConsultationReturned
    /\ "cat_data" \in DOMAIN trace.handlers[1].context
    /\ trace.handlers[1].context.cat_data.statistics.completion_rate = << 2, 5 >>
    /\ Len(response.urgent_issues) = 2
    /\ response.message = "urgent_template"

\* completion rate 9/10 and a stable weight give no issue and the healthy template
C7_WitnessHealthy ==
    /\ ConsultationReturned
    /\ "cat_data" \in DOMAIN trace.handlers[1].context
    /\ trace.handlers[1].context.cat_data.statistics.completion_rate = << 9, 10 >>
    /\ response.urgent_issues = << >>
    /\ response.message = "healthy_template"

-----------------------------------------------------------------------------
(* The store operations that feed the statistics and the trend calculator.  *)
(* A row's age is the number of days between its created_at and the moment  *)
(* of the reads; it is drawn when the row is created.                       *)

call_vars == << ai_interactions, db_pending, pc, req, session_id, request_type,
                context, response, result, http, trace, n_calls >>

MaxHealthRecords == 3
MaxSeriesActivities == 14
MaxStatActivities == 3

\* values of HealthRecord.value, in tenths: none, 0, and weights around 10.0 kg
HealthValues ==
    { None, Some(0), Some(93), Some(95), Some(100), Some(102), Some(105), Some(106) }

InitEmptyStore ==
    /\ cats = { Cat("c1", TRUE), Cat("c2", FALSE) }
    /\ users = { User("u1", "ann", "ann@cat") }
    /\ user_reqs = NoUserRequests
    /\ activity_records = << >>
    /\ health_records = << >>
    /\ reminders = << >>
    /\ reminder_times = << >>
    /\ now = 0
    /\ ai_interactions = << >>
    /\ ai_insights = << >>
    /\ db_pending = << >>
    /\ InitCall
    /\ resp = None

\* the variables an operation on one table leaves alone
reminder_vars == << reminders, reminder_times >>
activity_frame == << cats, users, user_reqs, health_records, reminder_vars, ai_insights,
                     call_vars >>
health_frame == << cats, users, user_reqs, activity_records, reminder_vars, now, ai_insights,
                   call_vars >>

\* core/exceptions.py: the status code of each class of the taxonomy; an
\* exception of another class is answered as a generic internal error
StatusCode(class) ==
    CASE class = "ValidationError" -> 400
      [] class = "NotFoundError" -> 404
      [] class = "AIAgentError" -> 500
      [] class = "ExternalServiceError" -> 502
      [] OTHER -> 500

\* the response of a Care Tools call that raised
ToolFailure(op, r) ==
    [ op |-> op, ok |-> FALSE, error |-> r.error,
      status |-> StatusCode(r.error.class) ]

\* core/exceptions.py 36-45: NotFoundError(resource, resource_id)
NotFoundError(resource, resource_id) ==
    [ message |-> "not found", error_code |-> "NOT_FOUND", status_code |-> 404,
      details |-> [ resource |-> resource, resource_id |-> resource_id ] ]

\* main.py 93-108: the response of the handler of CatAlertException
cat_alert_exception_handler(exc) ==
    [ status_code |-> exc.status_code,
      content |-> [ error_code |-> exc.error_code, message |-> exc.message,
                    details |-> exc.details ] ]

\* the response to HTTPException(status_code, detail): the endpoints raise it
\* with detail=str(e) for a NotFoundError (the exception's message) and with
\* "Internal server error" for any other exception
HTTPException(status_code) ==
    [ status_code |-> status_code,
      content |-> [ detail |-> IF status_code = 404 THEN "not found"
                               ELSE "Internal server error" ] ]

\* the response of an endpoint that raised HTTPException(status_code)
HttpFailure(op, status) ==
    [ op |-> op, ok |-> FALSE, status |-> HTTPException(status).status_code,
      body |-> HTTPException(status).content ]

\* tools.py 239-271: create_health_record appends a record
CreateHealthRecord(cat_id, record_type, value) ==
    /\ Len(health_records) < MaxHealthRecords
    /\ health_records' = Append(health_records, Health(cat_id, record_type, value, 0))
    /\ resp' = [ op |-> "create_health_record", ok |-> TRUE ]
    /\ UNCHANGED health_frame

\* activities.py 142-190: create_activity adds a pending activity of an existing cat
CreateActivity(cat_id, age, max) ==
    /\ Len(activity_records) < max
    /\ IF CatExists(cat_id)
       THEN /\ activity_records' = Append(activity_records, Activity(cat_id, "pending", age))
            /\ resp' = [ op |-> "create_activity", ok |-> TRUE, cat_id |-> cat_id,
                         status |-> 200 ]
       ELSE /\ resp' = HttpFailure("create_activity", 404)
            /\ UNCHANGED activity_records
    /\ UNCHANGED << activity_frame, now >>

\* models/activity.py 14-20: the values of ActivityStatus
ActivityStatuses == { "pending", "completed", "skipped", "expired", "cancelled" }

\* models/activity.py 50: updated_at has onupdate=func.now(), so a flush that
\* changes the row stamps it
Touch(old, new) == IF new = old THEN old ELSE [ new EXCEPT !.updated_at = Some(now) ]

\* update_activity_status without the stamp of complete_time
update_activity_status_NoStamp(i, status, notes, quality_rating) ==
    IF i \notin DOMAIN activity_records \/ status \notin ActivityStatuses
    THEN [ rows |-> activity_records,
           result |-> Raise("AIAgentError", "Failed to update activity status") ]
    ELSE LET a0 == activity_records[i]
             a1 == [ a0 EXCEPT !.status = status ]
             a3 == IF notes # None THEN [ a1 EXCEPT !.notes = notes ] ELSE a1
             a4 == IF Truthy(quality_rating)
                   THEN [ a3 EXCEPT !.quality_rating = quality_rating ] ELSE a3
             a5 == Touch(a0, a4)
         IN  [ rows |-> [ activity_records EXCEPT ![i] = a5 ],
               result |-> Ok([ status |-> a5.status,
                               complete_time |-> a5.complete_time ]) ]

\* tools.py 200-237: update_activity_status of the activity with id i.  A
\* missing activity and a status outside the enum (ValueError) both leave
\* through the except clause: rollback, then AIAgentError.
update_activity_status(i, status, notes, quality_rating) ==
    IF i \notin DOMAIN activity_records \/ status \notin ActivityStatuses
    THEN [ rows |-> activity_records,
           result |-> Raise("AIAgentError", "Failed to update activity status") ]
    ELSE LET a0 == activity_records[i]
             a1 == [ a0 EXCEPT !.status = status ]
             a2 == IF status = "completed"
                   THEN [ a1 EXCEPT !.complete_time = Some(now) ] ELSE a1
             a3 == IF notes # None THEN [ a2 EXCEPT !.notes = notes ] ELSE a2
             a4 == IF Truthy(quality_rating)
                   THEN [ a3 EXCEPT !.quality_rating = quality_rating ] ELSE a3
             a5 == Touch(a0, a4)
         IN  [ rows |-> [ activity_records EXCEPT ![i] = a5 ],
               result |-> Ok([ status |-> a5.status,
                               complete_time |-> a5.complete_time ]) ]

\* activity ids a caller passes: those of the rows, and one of no row
ActivityIds == 1..(Len(activity_records) + 1)

UpdateActivityStatus(i, status, notes, quality_rating) ==
    LET u == update_activity_status(i, status, notes, quality_rating) IN
    /\ activity_records' = u.rows
    /\ resp' = IF u.result.ok
               THEN [ op |-> "update_activity_status", ok |-> TRUE,
                      value |-> u.result.value ]
               ELSE [ id |-> i ] @@ ToolFailure("update_activity_status", u.result)
    /\ UNCHANGED << activity_frame, now >>

\* tools.py 145-173: analyze_health_trend over the last 30 days
AnalyzeHealthTrend(cat_id) ==
    /\ resp' = [ op |-> "analyze_health_trend", ok |-> TRUE, cat_id |-> cat_id,
                 value |-> analyze_health_trend(cat_id, 30, TRUE).value ]
    /\ UNCHANGED << store_vars, call_vars >>

\* health.py 268-278: the weight trend of GET /health/cats/{id}/trends
endpoint_weight_trend(records) ==
    LET weight_records ==
            SelectSeq(records, LAMBDA r: r.record_type = "weight" /\ Truthy(r.value))
    IN  IF Len(weight_records) >= 2
        THEN LET recent_weight == weight_records[Len(weight_records)].value[1]
                 older_weight == weight_records[1].value[1]
                 weight_change == Rat(recent_weight - older_weight, older_weight)
             IN  IF RatLess(Rat(5, 100), weight_change) THEN "increasing"
                 ELSE IF RatLess(weight_change, Rat(-5, 100)) THEN "decreasing"
                 ELSE "stable"
        ELSE "stable"

\* health.py 240-310: GET /health/cats/{cat_id}/trends
GetHealthTrends(cat_id) ==
    /\ resp' =
         IF CatExists(cat_id)
         THEN [ op |-> "get_health_trends", ok |-> TRUE, cat_id |-> cat_id,
                value |-> [ trends |-> [ weight_trend |->
                    endpoint_weight_trend(InWindow(health_records, cat_id, 30)) ] ] ]
         ELSE [ op |-> "get_health_trends", ok |-> FALSE, cat_id |-> cat_id,
                status |-> 404 ]
    /\ UNCHANGED << store_vars, call_vars >>

\* tools.py 21-83: get_cat_data
GetCatData(cat_id) ==
    /\ resp' = LET r == get_cat_data(cat_id, TRUE) IN
               IF r.ok
               THEN [ op |-> "get_cat_data", ok |-> TRUE, cat_id |-> cat_id,
                      days |-> CatDataActivityDays, value |-> r.value ]
               ELSE [ cat_id |-> cat_id, op |-> "get_cat_data", ok |-> FALSE,
                      error |-> r.error, status |-> StatusCode(r.error.class) ]
    /\ UNCHANGED << store_vars, call_vars >>

\* cats.py 215-266: GET /cats/{cat_id}/stats
get_cat_stats(cat_id, days) ==
    IF ~\E c \in cats : c.id = cat_id /\ c.is_active
    THEN Raise("NotFoundError", "Cat not found")
    ELSE LET recent_activities == InWindow(activity_records, cat_id, days)
             hrecs == InWindow(health_records, cat_id, days)
             total_activities == Len(recent_activities)
             completed_activities == CountCompleted(recent_activities)
         IN  Ok([ cat_id |-> cat_id,
                  period_days |-> days,
                  statistics |->
                    [ total_activities |-> total_activities,
                      completed_activities |-> completed_activities,
                      completion_rate |->
                          CompletionRate(completed_activities, total_activities),
                      avg_activity_duration_minutes |-> AvgDuration(recent_activities),
                      health_records_count |-> Len(hrecs) ] ])

GetCatStats(cat_id, days) ==
    /\ resp' = LET r == get_cat_stats(cat_id, days) IN
               IF r.ok
               THEN [ op |-> "get_cat_stats", ok |-> TRUE, cat_id |-> cat_id,
                      days |-> days, value |-> r.value ]
               ELSE [ cat_id |-> cat_id, op |-> "get_cat_stats", ok |-> FALSE,
                      error |-> r.error, status |-> StatusCode(r.error.class) ]
    /\ UNCHANGED << store_vars, call_vars >>

\* Weight trend: health records are created and the trend is read
NextWeight ==
    \/ \E t \in { "weight", "temperature" }, v \in HealthValues :
          CreateHealthRecord("c1", t, v)
    \/ AnalyzeHealthTrend("c1")
    \/ GetHealthTrends("c1")

SpecWeight == InitEmptyStore /\ [][NextWeight]_vars

\* Completion-rate trend: activities are created and completed, the trend is read
NextCompletion ==
    \/ CreateActivity("c1", 0, MaxSeriesActivities)
    \/ \E i \in ActivityIds : UpdateActivityStatus(i, "completed", None, None)
    \/ AnalyzeHealthTrend("c1")

SpecCompletion == InitEmptyStore /\ [][NextCompletion]_vars

\* Statistics: activities of two cats, inside and outside the 7-day window
NextStats ==
    \/ \E c \in { "c1", "c2" }, age \in { 0, 8 } : CreateActivity(c, age, MaxStatActivities)
    \/ \E i \in ActivityIds, st \in { "completed", "skipped" } :
          UpdateActivityStatus(i, st, None, None)
    \/ \E c \in { "c1", "c2", "c9" } : GetCatData(c)
    \/ \E c \in { "c1", "c2", "c9" }, days \in { 7, 30 } : GetCatStats(c, days)

SpecStats == InitEmptyStore /\ [][NextStats]_vars

-----------------------------------------------------------------------------
(* Properties of the trend calculator and of the statistics *)

\* the last operation read the trends of cat c1
TrendRead ==
    /\ resp # None
    /\ resp.op \in { "analyze_health_trend", "get_health_trends" }
    /\ resp.ok

\* the class of the relative change (last - first) / first against +5% and -5%,
\* for first > 0
PercentClass(first, last) ==
    IF 100 * (last - first) > 5 * first THEN "increasing"
    ELSE IF 100 * (last - first) < (0 - 5) * first THEN "decreasing"
    ELSE "stable"

WeightTyped == SelectSeq(health_records, LAMBDA r: r.record_type = "weight")

WeightValued ==
    SelectSeq(health_records,
              LAMBDA r: r.record_type = "weight" /\ r.value # None /\ r.value[1] # 0)

Values(recs) == [ i \in DOMAIN recs |-> recs[i].value ]

C8_WitnessIncreasing ==
    /\ TrendRead
    /\ Values(WeightTyped) = << Some(100), Some(106) >>
    /\ resp.value.trends.weight_trend = "increasing"

\* the series analyze_health_trend was given, when it was the last operation
SeriesRead == resp # None /\ resp.op = "analyze_health_trend" /\ resp.ok

CompletedIn(lo, hi) ==
    Cardinality({ i \in lo..hi : activity_records[i].status = "completed" })

C9_WitnessThirteen ==
    /\ SeriesRead
    /\ Len(activity_records) = 13
    /\ CompletedIn(7, 13) = 7
    /\ CompletedIn(1, 6) = 0
    /\ resp.value.trends.completion_rate_trend = "stable"

\* the last operation returned statistics
StatsRead ==
    /\ resp # None
    /\ resp.op \in { "get_cat_data", "get_cat_stats" }
    /\ resp.ok

\* C10: completion_rate is completed / total over the cat's activities in the
\* window, exactly 0 when there are none, and within [0, 1].
C10_CompletionRate ==
    StatsRead =>
        LET window == { i \in DOMAIN activity_records :
                           /\ activity_records[i].cat_id = resp.cat_id
                           /\ activity_records[i].age <= resp.days }
            completed == { i \in window : activity_records[i].status = "completed" }
            rate == resp.value.statistics.completion_rate
        IN  /\ rate[2] > 0
            /\ window = {} => rate = << 0, 1 >>
            /\ rate[1] * Cardinality(window) = Cardinality(completed) * rate[2]
            /\ 0 <= rate[1] /\ rate[1] <= rate[2]

\* C10 witness: get_cat_data found one of two activities of the window
\* completed, a third activity lying outside the window
C10_Witness ==
    /\ StatsRead
    /\ resp.op = "get_cat_data"
    /\ Len(activity_records) = 3
    /\ resp.value.statistics.completion_rate = << 1, 2 >>

\* get_cat_data of a cat whose activities all lie outside the window: rate 0
C10_WitnessEmptyWindow ==
    /\ StatsRead
    /\ resp.op = "get_cat_data"
    /\ activity_records # << >>
    /\ resp.value.statistics.total_activities_7d = 0
    /\ resp.value.statistics.completion_rate = << 0, 1 >>

-----------------------------------------------------------------------------
(* Activities: the operations that change an ActivityRecord                *)
(* (app/api/api_v1/endpoints/activities.py, app/ai/tools.py).  An          *)
(* activity's id is its position in activity_records.                      *)

MaxActivities == 2
MaxTime == 1

\* time passes between two operations
Tick ==
    /\ now < MaxTime
    /\ now' = now + 1
    /\ UNCHANGED << cats, users, user_reqs, activity_records, health_records, reminder_vars,
                    ai_insights, call_vars, resp >>

\* dict.get-less field update: setattr(row, field, d[field]) for a field of d
SetAttr(row, d, field) ==
    IF field \in DOMAIN d THEN [ row EXCEPT ![field] = d[field] ] ELSE row

\* activities.py 193-242: PUT /activities/{activity_id}.  update_data holds the
\* fields the client sent (dict(exclude_unset=True)), in the order of
\* ActivityUpdate: status, notes, quality_rating, actual_duration.
update_activity(i, update_data) ==
    IF i \notin DOMAIN activity_records
    THEN [ rows |-> activity_records, status |-> 404 ]
    ELSE IF "status" \in DOMAIN update_data
            /\ update_data.status \notin ActivityStatuses
    THEN [ rows |-> activity_records, status |-> 500 ]
    ELSE LET a0 == activity_records[i]
             a1 == IF "status" \in DOMAIN update_data
                   THEN [ a0 EXCEPT
                            !.status = update_data.status,
                            !.complete_time =
                                IF update_data.status = "completed" /\ @ = None
                                THEN Some(now) ELSE @ ]
                   ELSE a0
             a2 == SetAttr(a1, update_data, "notes")
             a3 == SetAttr(a2, update_data, "quality_rating")
             a4 == SetAttr(a3, update_data, "actual_duration")
             a5 == [ a4 EXCEPT !.updated_at = Some(now) ]
         IN  [ rows |-> [ activity_records EXCEPT ![i] = a5 ], status |-> 200 ]

UpdateActivity(i, update_data) ==
    LET u == update_activity(i, update_data) IN
    /\ activity_records' = u.rows
    /\ resp' = [ op |-> "update_activity", ok |-> u.status = 200,
                 status |-> u.status ]
    /\ UNCHANGED << activity_frame, now >>

\* activities.py 245-284: POST /activities/{activity_id}/complete
complete_activity(i, notes, quality_rating, actual_duration) ==
    IF i \notin DOMAIN activity_records
    THEN [ rows |-> activity_records, status |-> 404 ]
    ELSE LET a0 == activity_records[i]
             a1 == [ a0 EXCEPT !.status = "completed", !.complete_time = Some(now) ]
             a2 == IF notes # None THEN [ a1 EXCEPT !.notes = notes ] ELSE a1
             a3 == IF Truthy(quality_rating)
                   THEN [ a2 EXCEPT !.quality_rating = quality_rating ] ELSE a2
             a4 == IF Truthy(actual_duration)
                   THEN [ a3 EXCEPT !.actual_duration = actual_duration ] ELSE a3
             a5 == [ a4 EXCEPT !.updated_at = Some(now) ]
         IN  [ rows |-> [ activity_records EXCEPT ![i] = a5 ], status |-> 200 ]

CompleteActivity(i, notes, quality_rating, actual_duration) ==
    LET u == complete_activity(i, notes, quality_rating, actual_duration) IN
    /\ activity_records' = u.rows
    /\ resp' = [ op |-> "complete_activity", ok |-> u.status = 200,
                 status |-> u.status ]
    /\ UNCHANGED << activity_frame, now >>

\* what a client puts in the body of PUT /activities/{id}
ActivityUpdates ==
    { [ status |-> "completed" ], [ status |-> "cancelled" ], [ status |-> "expired" ],
      [ status |-> "done" ],
      [ actual_duration |-> Some(0) ], [ actual_duration |-> Some(10) ] }

NextActivities ==
    \/ Tick
    \/ \E c \in { "c1", "c9" } : CreateActivity(c, 0, MaxActivities)
    \/ \E i \in ActivityIds, d \in ActivityUpdates : UpdateActivity(i, d)
    \/ \E i \in ActivityIds, d \in { None, Some(20) } :
          CompleteActivity(i, None, None, d)
    \/ \E i \in ActivityIds, st \in { "completed", "pending" } :
          UpdateActivityStatus(i, st, None, None)
    \/ \E c \in { "c1", "c9" } : GetCatData(c)

SpecActivities == InitEmptyStore /\ [][NextActivities]_vars

-----------------------------------------------------------------------------
(* Properties of the activity operations, checked under SpecActivities *)

\* the last operation was a get_cat_data that returned
CatDataRead == resp # None /\ resp.op = "get_cat_data" /\ resp.ok

\* C11: avg_activity_duration is the mean of the durations of the activities of
\* the 7-day window whose duration is not null, and 0 when there is none.
C11_AvgOverNonNullDurations ==
    CatDataRead =>
        LET window == InWindow(activity_records, resp.cat_id, CatDataActivityDays)
            nonnull == SelectSeq(window, LAMBDA a: a.actual_duration # None)
            total == SumSeq([ i \in DOMAIN nonnull |-> nonnull[i].actual_duration[1] ])
            avg == resp.value.statistics.avg_activity_duration
        IN  IF nonnull = << >>
            THEN avg[1] = 0
            ELSE avg[1] * Len(nonnull) = total * avg[2]

\* the last operation was a Care Tools lookup of an entity that does not exist
LookupOfMissing ==
    /\ resp # None
    /\ \/ resp.op = "get_cat_data" /\ ~CatExists(resp.cat_id)
       \/ /\ resp.op = "update_activity_status"
          /\ ~resp.ok
          /\ resp.id \notin DOMAIN activity_records

\* C12: get_cat_data of a cat id that does not exist and update_activity_status
\* of an activity id that does not exist end in the NotFound error of the
\* taxonomy (status 404) and change nothing in the store.
C12_MissingEntityIsNotFound ==
    [][ LookupOfMissing' =>
          /\ ~resp'.ok
          /\ resp'.error.class = "NotFoundError"
          /\ resp'.status = 404
          /\ UNCHANGED << cats, users, user_reqs, activity_records, health_records,
                          reminder_vars >> ]_vars

\* C15: a completion timestamp that is set is never overwritten: whatever
\* update_activity_status, PUT /activities/{id} or POST /activities/{id}/complete
\* does to an activity that has a complete_time, the complete_time stays.
C15_CompleteTimeSetOnce ==
    [][ \A i \in DOMAIN activity_records :
          activity_records[i].complete_time # None =>
              activity_records'[i].complete_time = activity_records[i].complete_time
      ]_vars

\* C16: an activity whose status is cancelled or expired keeps that status and
\* every other field through every later operation.
C16_ImmutableOnceClosed ==
    [][ \A i \in DOMAIN activity_records :
          activity_records[i].status \in { "cancelled", "expired" } =>
              activity_records'[i] = activity_records[i]
      ]_vars

-----------------------------------------------------------------------------
(* Reminders: Care Tools create_reminder (app/ai/tools.py) and the          *)
(* endpoints of app/api/api_v1/endpoints/reminders.py.  A reminder's id is  *)
(* its position in reminders; a time string is a sequence of characters.    *)

MaxReminders == 2

Digits == << "0", "1", "2", "3", "4", "5", "6", "7", "8", "9" >>
IsDigit(c) == \E d \in DOMAIN Digits : Digits[d] = c
DigitValue(c) == (CHOOSE d \in DOMAIN Digits : Digits[d] = c) - 1

\* str.split(sep) for a one-character separator
RECURSIVE Split(_, _)
Split(s, sep) ==
    IF \A k \in DOMAIN s : s[k] # sep
    THEN << s >>
    ELSE LET k == CHOOSE j \in DOMAIN s :
                      s[j] = sep /\ \A m \in 1..(j - 1) : s[m] # sep
         IN  << SubSeq(s, 1, k - 1) >> \o Split(SubSeq(s, k + 1, Len(s)), sep)

RECURSIVE DecimalValue(_)
DecimalValue(s) ==
    IF s = << >> THEN 0
    ELSE 10 * DecimalValue(SubSeq(s, 1, Len(s) - 1)) + DigitValue(s[Len(s)])

\* int(x) for a str: surrounding whitespace is dropped, then an optional sign
\* and at least one digit; anything else raises ValueError (None here)
ParseInt(x) ==
    LET t == Strip(x)
        signed == t # << >> /\ Head(t) \in { "+", "-" }
        digits == IF signed THEN Tail(t) ELSE t
    IN  IF digits # << >> /\ \A k \in DOMAIN digits : IsDigit(digits[k])
        THEN Some(IF signed /\ Head(t) = "-"
                  THEN 0 - DecimalValue(digits) ELSE DecimalValue(digits))
        ELSE None

\* tools.py 119: hour, minute = map(int, time_str.split(":")).  Unpacking needs
\* exactly two parts and int() needs each to be a number; both failures are
\* ValueError (None here).
ParseTime(time_str) ==
    LET parts == Split(time_str, ":") IN
    IF Len(parts) = 2 /\ ParseInt(parts[1]) # None /\ ParseInt(parts[2]) # None
    THEN Some([ hour |-> ParseInt(parts[1])[1], minute |-> ParseInt(parts[2])[1] ])
    ELSE None

\* models/reminder.py 14-28: the values of the two enums
ReminderFrequencies == { "daily", "weekly", "monthly", "custom" }
CatCareTypes == { "food", "water", "play", "medication", "vet_visit", "grooming" }

\* models/reminder.py 50-75: a row of reminders
Reminder(cat_id, type, frequency, priority) ==
    [ cat_id |-> cat_id, type |-> type, frequency |-> frequency,
      priority |-> priority, is_enabled |-> TRUE, updated_at |-> None ]

\* models/reminder.py 32-41: a row of reminder_times
ReminderTime(reminder_id, hour, minute, day_of_week) ==
    [ reminder_id |-> reminder_id, hour |-> hour, minute |-> minute,
      day_of_week |-> day_of_week ]

\* What the database does during one operation: every statement succeeds, the
\* flush fails, the commit fails, or the read that follows the commit fails.
DbOutcomes == { "ok", "flush_fails", "commit_fails", "refresh_fails" }

\* the step at which a reminder creation raises
CreateFailsAt(cat_id, type, frequency, db) ==
    CASE ~CatExists(cat_id) -> "cat"
      [] type \notin CatCareTypes -> "type"
      [] frequency \notin ReminderFrequencies -> "frequency"
      [] db = "flush_fails" -> "flush"
      [] db = "commit_fails" -> "commit"
      [] db = "refresh_fails" -> "refresh"
      [] OTHER -> "none"

\* a creation whose flush is a commit: the reminder is persisted before its
\* time rows are added
create_reminder_CommitsAtFlush(cat_id, reminder_type, times, frequency, db) ==
    LET failed_at == CreateFailsAt(cat_id, reminder_type, frequency, db)
        reminder == Reminder(cat_id, reminder_type, frequency, 1)
        parsed == SelectSeq([ k \in DOMAIN times |-> ParseTime(times[k]) ],
                            LAMBDA t: t # None)
        rows == [ k \in DOMAIN parsed |->
                    ReminderTime(Len(reminders) + 1, parsed[k][1].hour,
                                 parsed[k][1].minute, None) ]
    IN  IF failed_at \in { "cat", "type", "frequency", "flush" }
        THEN [ reminders |-> reminders, reminder_times |-> reminder_times,
               pending |-> Rollback(db_pending), failed_at |-> failed_at,
               result |-> Raise("AIAgentError", "Failed to create reminder") ]
        ELSE IF failed_at = "commit"
        THEN [ reminders |-> Commit(reminders, << reminder >>),
               reminder_times |-> reminder_times,
               pending |-> Rollback(db_pending \o rows), failed_at |-> failed_at,
               result |-> Raise("AIAgentError", "Failed to create reminder") ]
        ELSE [ reminders |-> Commit(reminders, << reminder >>),
               reminder_times |-> Commit(reminder_times, rows),
               pending |-> << >>, failed_at |-> failed_at,
               result |-> IF failed_at = "refresh"
                          THEN Raise("AIAgentError", "Failed to create reminder")
                          ELSE Ok([ id |-> Len(reminders) + 1, times |-> times ]) ]

\* tools.py 85-143: CatCareTools.create_reminder.  The reminder is added and
\* flushed, one ReminderTime is added per time string that parses (a ValueError
\* skips the string), then everything is committed; any exception rolls the
\* session back and is raised again as AIAgentError.  The returned dict reads
\* reminder.created_at, which the commit expired.
create_reminder(cat_id, reminder_type, times, frequency, db) ==
    LET failed_at == CreateFailsAt(cat_id, reminder_type, frequency, db)
        reminder == Reminder(cat_id, reminder_type, frequency, 1)
        parsed == SelectSeq([ k \in DOMAIN times |-> ParseTime(times[k]) ],
                            LAMBDA t: t # None)
        rows == [ k \in DOMAIN parsed |->
                    ReminderTime(Len(reminders) + 1, parsed[k][1].hour,
                                 parsed[k][1].minute, None) ]
        added == CASE failed_at \in { "cat", "type", "frequency" } -> << >>
                   [] failed_at = "flush" -> << reminder >>
                   [] OTHER -> << reminder >> \o rows
    IN  IF failed_at \in { "cat", "type", "frequency", "flush", "commit" }
        THEN [ reminders |-> reminders, reminder_times |-> reminder_times,
               pending |-> Rollback(db_pending \o added), failed_at |-> failed_at,
               result |-> Raise("AIAgentError", "Failed to create reminder") ]
        ELSE [ reminders |-> Commit(reminders, << reminder >>),
               reminder_times |-> Commit(reminder_times, rows),
               pending |-> << >>, failed_at |-> failed_at,
               result |-> IF failed_at = "refresh"
                          THEN Raise("AIAgentError", "Failed to create reminder")
                          ELSE Ok([ id |-> Len(reminders) + 1, times |-> times ]) ]

reminder_frame ==
    << cats, users, user_reqs, activity_records, health_records, now, ai_interactions,
       ai_insights, pc, req, session_id, request_type, context, response, result,
       http, trace, n_calls >>

ToolsCreateReminder(cat_id, reminder_type, times, frequency, db) ==
    LET c == create_reminder(cat_id, reminder_type, times, frequency, db) IN
    /\ Len(reminders) < MaxReminders
    /\ reminders' = c.reminders
    /\ reminder_times' = c.reminder_times
    /\ db_pending' = c.pending
    /\ resp' = [ op |-> "tools.create_reminder", ok |-> c.result.ok,
                 cat_id |-> cat_id, failed_at |-> c.failed_at, times |-> times,
                 status |-> IF c.result.ok THEN 200
                            ELSE StatusCode(c.result.error.class) ]
    /\ UNCHANGED reminder_frame

\* the ReminderTime rows of a list of ReminderTimeCreate (reminders.py 19-23,
\* 193-200, 266-273)
TimeRows(id, scheduled_times) ==
    [ k \in DOMAIN scheduled_times |->
        ReminderTime(id, scheduled_times[k].hour, scheduled_times[k].minute,
                     scheduled_times[k].day_of_week) ]

\* reminders.py 166-235: POST /reminders.  A missing cat is answered 404 before
\* anything is added; every other exception rolls back and is answered 500.
\* db.refresh follows the commit.
create_reminder_endpoint(data, db) ==
    LET failed_at == CreateFailsAt(data.cat_id, data.type, data.frequency, db)
        reminder == Reminder(data.cat_id, data.type, data.frequency, data.priority)
        rows == TimeRows(Len(reminders) + 1, data.scheduled_times)
        added == CASE failed_at \in { "type", "frequency" } -> << >>
                   [] failed_at = "flush" -> << reminder >>
                   [] OTHER -> << reminder >> \o rows
    IN  IF failed_at = "cat"
        THEN [ reminders |-> reminders, reminder_times |-> reminder_times,
               pending |-> db_pending, failed_at |-> failed_at, status |-> 404 ]
        ELSE IF failed_at \in { "type", "frequency", "flush", "commit" }
        THEN [ reminders |-> reminders, reminder_times |-> reminder_times,
               pending |-> Rollback(db_pending \o added), failed_at |-> failed_at,
               status |-> 500 ]
        ELSE [ reminders |-> Commit(reminders, << reminder >>),
               reminder_times |-> Commit(reminder_times, rows),
               pending |-> << >>, failed_at |-> failed_at,
               status |-> IF failed_at = "refresh" THEN 500 ELSE 200 ]

CreateReminder(data, db) ==
    LET c == create_reminder_endpoint(data, db) IN
    /\ Len(reminders) < MaxReminders
    /\ reminders' = c.reminders
    /\ reminder_times' = c.reminder_times
    /\ db_pending' = c.pending
    /\ resp' = [ op |-> "create_reminder", ok |-> c.status = 200,
                 cat_id |-> data.cat_id, failed_at |-> c.failed_at, status |-> c.status ]
    /\ UNCHANGED reminder_frame

\* a reminder looked up by id (reminders.py 246, 321): the table is indexed by
\* id, and the place of a deleted row holds None
ReminderExists(id) == id \in DOMAIN reminders /\ reminders[id] # None

\* the ReminderTime rows of a reminder, in the order of the table
TimesOf(times, id) == SelectSeq(times, LAMBDA t: t.reminder_id = id)

\* an update that adds the given times to the rows the reminder has
update_reminder_KeepsOldTimes(id, data, db) ==
    LET failed_at ==
            CASE ~ReminderExists(id) -> "reminder"
              [] "type" \in DOMAIN data /\ data.type \notin CatCareTypes -> "type"
              [] "frequency" \in DOMAIN data
                   /\ data.frequency \notin ReminderFrequencies -> "frequency"
              [] db = "flush_fails" -> "flush"
              [] db = "commit_fails" -> "commit"
              [] db = "refresh_fails" -> "refresh"
              [] OTHER -> "none"
    IN  IF failed_at = "reminder"
        THEN [ reminders |-> reminders, reminder_times |-> reminder_times,
               pending |-> db_pending, failed_at |-> failed_at, status |-> 404 ]
        ELSE IF failed_at \in { "type", "frequency", "flush", "commit" }
        THEN [ reminders |-> reminders, reminder_times |-> reminder_times,
               pending |-> Rollback(db_pending), failed_at |-> failed_at,
               status |-> 500 ]
        ELSE LET r1 == SetAttr(reminders[id], data, "type")
                 r2 == SetAttr(r1, data, "frequency")
                 r3 == SetAttr(r2, data, "priority")
                 r4 == SetAttr(r3, data, "is_enabled")
                 r5 == [ r4 EXCEPT !.updated_at = Some(now) ]
                 kept == SelectSeq(reminder_times, LAMBDA t: t.reminder_id # id)
             IN  [ reminders |-> [ reminders EXCEPT ![id] = r5 ],
                   reminder_times |->
                       IF "scheduled_times" \in DOMAIN data
                       THEN Commit(reminder_times, TimeRows(id, data.scheduled_times))
                       ELSE reminder_times,
                   pending |-> << >>, failed_at |-> failed_at,
                   status |-> IF failed_at = "refresh" THEN 500 ELSE 200 ]

\* reminders.py 238-310: PUT /reminders/{reminder_id}.  The fields sent are
\* set (type and frequency through their enums), the time rows are replaced
\* when scheduled_times is sent, updated_at is stamped, then commit and refresh.
update_reminder(id, data, db) ==
    LET failed_at ==
            CASE ~ReminderExists(id) -> "reminder"
              [] "type" \in DOMAIN data /\ data.type \notin CatCareTypes -> "type"
              [] "frequency" \in DOMAIN data
                   /\ data.frequency \notin ReminderFrequencies -> "frequency"
              [] db = "flush_fails" -> "flush"
              [] db = "commit_fails" -> "commit"
              [] db = "refresh_fails" -> "refresh"
              [] OTHER -> "none"
    IN  IF failed_at = "reminder"
        THEN [ reminders |-> reminders, reminder_times |-> reminder_times,
               pending |-> db_pending, failed_at |-> failed_at, status |-> 404 ]
        ELSE IF failed_at \in { "type", "frequency", "flush", "commit" }
        THEN [ reminders |-> reminders, reminder_times |-> reminder_times,
               pending |-> Rollback(db_pending), failed_at |-> failed_at,
               status |-> 500 ]
        ELSE LET r1 == SetAttr(reminders[id], data, "type")
                 r2 == SetAttr(r1, data, "frequency")
                 r3 == SetAttr(r2, data, "priority")
                 r4 == SetAttr(r3, data, "is_enabled")
                 r5 == [ r4 EXCEPT !.updated_at = Some(now) ]
                 kept == SelectSeq(reminder_times, LAMBDA t: t.reminder_id # id)
             IN  [ reminders |-> [ reminders EXCEPT ![id] = r5 ],
                   reminder_times |->
                       IF "scheduled_times" \in DOMAIN data
                       THEN Commit(kept, TimeRows(id, data.scheduled_times))
                       ELSE reminder_times,
                   pending |-> << >>, failed_at |-> failed_at,
                   status |-> IF failed_at = "refresh" THEN 500 ELSE 200 ]

UpdateReminder(id, data, db) ==
    LET u == update_reminder(id, data, db) IN
    /\ reminders' = u.reminders
    /\ reminder_times' = u.reminder_times
    /\ db_pending' = u.pending
    /\ resp' = [ op |-> "update_reminder", ok |-> u.status = 200,
                 failed_at |-> u.failed_at, status |-> u.status ]
    /\ UNCHANGED reminder_frame

\* time strings a caller of create_reminder passes
Time0900 == << "0", "9", ":", "0", "0" >>
Time1830 == << "1", "8", ":", "3", "0" >>
TimeBad == << "b", "a", "d", "-", "t", "i", "m", "e" >>
Time2599 == << "2", "5", ":", "9", "9" >>
TimeSeconds == << "0", "9", ":", "0", "0", ":", "0", "0" >>
TimesLists ==
    { << Time0900, TimeBad, Time1830 >>, << Time0900, Time2599 >>,
      << TimeSeconds >>, << >> }

\* lists of ReminderTimeCreate a client sends
ScheduledTimesLists ==
    { << [ hour |-> 9, minute |-> 0, day_of_week |-> None ],
         [ hour |-> 18, minute |-> 30, day_of_week |-> Some(6) ] >>,
      << [ hour |-> 24, minute |-> 60, day_of_week |-> Some(7) ] >> }

\* the cat, type and frequency of a creation: a valid one, and one for each
\* argument that is not
CreateArgs ==
    { [ cat_id |-> "c1", type |-> "food", frequency |-> "daily" ],
      [ cat_id |-> "c9", type |-> "food", frequency |-> "daily" ],
      [ cat_id |-> "c1", type |-> "walk", frequency |-> "daily" ],
      [ cat_id |-> "c1", type |-> "food", frequency |-> "hourly" ] }

\* bodies of POST /reminders
ReminderCreates ==
    { [ cat_id |-> a.cat_id, type |-> a.type, frequency |-> a.frequency,
        priority |-> 1, scheduled_times |-> st ] :
        a \in CreateArgs, st \in ScheduledTimesLists }

\* bodies of PUT /reminders/{id}
ReminderUpdates ==
    { [ scheduled_times |-> st ] : st \in ScheduledTimesLists \cup { << >> } }
      \cup { [ type |-> "walk" ], [ priority |-> 2 ] }

NextReminders ==
    \/ \E a \in CreateArgs, times \in TimesLists, db \in DbOutcomes :
          ToolsCreateReminder(a.cat_id, a.type, times, a.frequency, db)
    \/ \E data \in ReminderCreates, db \in DbOutcomes : CreateReminder(data, db)
    \/ \E id \in 1..(Len(reminders) + 1), data \in ReminderUpdates,
          db \in { "ok", "commit_fails" } : UpdateReminder(id, data, db)

SpecReminders == InitEmptyStore /\ [][NextReminders]_vars

-----------------------------------------------------------------------------
(* Properties of the reminder operations, checked under SpecReminders *)

\* a time string of the form HH:MM, 00:00 to 23:59
WellFormedTime(time_str) ==
    /\ Len(time_str) = 5
    /\ time_str[3] = ":"
    /\ \A k \in { 1, 2, 4, 5 } : IsDigit(time_str[k])
    /\ DecimalValue(SubSeq(time_str, 1, 2)) <= 23
    /\ DecimalValue(SubSeq(time_str, 4, 5)) <= 59

\* the last operation was a Care Tools create_reminder that returned
ToolsCreated == resp # None /\ resp.op = "tools.create_reminder" /\ resp.ok

\* C13: a Care Tools create_reminder that returns has persisted one Reminder and
\* exactly one ReminderTime per well-formed "HH:MM" string of its list, each with
\* the hour and minute of its string; the other strings are skipped.
C13_OneTimePerWellFormedString ==
    ToolsCreated =>
        LET id == Len(reminders)
            well == SelectSeq(resp.times, WellFormedTime)
            rows == SelectSeq(reminder_times, LAMBDA t: t.reminder_id = id)
        IN  /\ id >= 1
            /\ Len(rows) = Len(well)
            /\ \A k \in DOMAIN rows :
                  /\ rows[k].hour = DecimalValue(SubSeq(well[k], 1, 2))
                  /\ rows[k].minute = DecimalValue(SubSeq(well[k], 4, 5))

\* C18: every persisted ReminderTime has hour in 0..23, minute in 0..59 and,
\* when it has one, day_of_week in 0..6.
C18_ReminderTimeRanges ==
    \A k \in DOMAIN reminder_times :
        /\ reminder_times[k].hour \in 0..23
        /\ reminder_times[k].minute \in 0..59
        /\ reminder_times[k].day_of_week # None =>
              reminder_times[k].day_of_week[1] \in 0..6

\* the last operation was a reminder creation that raised at or before its commit
CreationFailed ==
    /\ resp # None
    /\ resp.op \in { "tools.create_reminder", "create_reminder" }
    /\ resp.failed_at \in { "cat", "type", "frequency", "flush", "commit" }

C14_WitnessEndpoint ==
    /\ CreationFailed
    /\ resp.op = "create_reminder"
    /\ resp.failed_at = "commit"
    /\ Len(reminders) = 1

\* ---------------------------------------------------------------------------
\* Health records: PUT /health/{record_id}

\* health record ids a caller passes: those of the rows, and one of no row
HealthIds == 1..(Len(health_records) + 1)

\* health.py 183-212: update_health_record.  update_data holds the fields the
\* client sent (dict(exclude_unset=True)); every one of them is set on the row,
\* whichever field of HealthRecordUpdate it is.  A failing commit is rolled
\* back and answered 500.
update_health_record(i, update_data, db) ==
    IF i \notin DOMAIN health_records
    THEN [ rows |-> health_records, status |-> 404 ]
    ELSE LET r0 == health_records[i]
             r1 == SetAttr(r0, update_data, "record_type")
             r2 == SetAttr(r1, update_data, "value")
             r3 == SetAttr(r2, update_data, "notes")
             r4 == [ r3 EXCEPT !.updated_at = Some(now) ]
         IN  IF db = "commit_fails"
             THEN [ rows |-> health_records, status |-> 500 ]
             ELSE [ rows |-> [ health_records EXCEPT ![i] = r4 ], status |-> 200 ]

UpdateHealthRecord(i, update_data, db) ==
    LET u == update_health_record(i, update_data, db) IN
    /\ health_records' = u.rows
    /\ resp' = IF u.status = 200
               THEN [ op |-> "update_health_record", ok |-> TRUE, id |-> i,
                      sent |-> DOMAIN update_data, status |-> 200 ]
               ELSE [ id |-> i ] @@ HttpFailure("update_health_record", u.status)
    /\ UNCHANGED health_frame

\* health.py 38-53: bodies of HealthRecordUpdate: a free-text edit, a new
\* value, a new record type
HealthRecordUpdates ==
    { [ notes |-> Some("n") ],
      [ value |-> Some(95) ],
      [ record_type |-> "temperature" ],
      [ notes |-> Some("n"), value |-> Some(95) ] }

NextHealthRecords ==
    \/ Tick
    \/ CreateHealthRecord("c1", "weight", Some(100))
    \/ \E i \in HealthIds, d \in HealthRecordUpdates, db \in { "ok", "commit_fails" } :
          UpdateHealthRecord(i, d, db)
    \/ GetHealthTrends("c1")

SpecHealthRecords == InitEmptyStore /\ [][NextHealthRecords]_vars

\* C17: no operation changes the record_type or the value of an existing
\* HealthRecord (unit, weight and the appetite/activity/energy levels are set by
\* the same loop as value and are represented by it).
C17_MeasurementsNeverMutated ==
    [][ \A i \in DOMAIN health_records :
          /\ health_records'[i].record_type = health_records[i].record_type
          /\ health_records'[i].value = health_records[i].value ]_vars


\* ---------------------------------------------------------------------------
\* Cats: the endpoints of /cats

MaxCats == 3

\* the ids (uuid4) of the cats POST /cats creates
CatIdPool == << "c3", "c4" >>

\* a cat looked up by id among the active cats (cats.py 99, 162, 193, 221)
ActiveCat(cat_id) == { c \in cats : c.id = cat_id /\ c.is_active }

\* cats.py 69-89: GET /cats (skip = 0, limit = 100): the ids of the active cats,
\* of one owner when owner_id is given
get_cats(owner_id) ==
    LET query == { c \in cats : c.is_active }
        owned == IF owner_id # None
                 THEN { c \in query : c.owner_id = owner_id[1] } ELSE query
    IN  { c.id : c \in owned }

GetCats(owner_id) ==
    /\ resp' = [ op |-> "get_cats", ok |-> TRUE, owner_id |-> owner_id,
                 value |-> get_cats(owner_id), status |-> 200 ]
    /\ UNCHANGED << store_vars, call_vars >>

\* cats.py 92-109: GET /cats/{cat_id}
GetCat(cat_id) ==
    /\ resp' = IF ActiveCat(cat_id) # { }
               THEN [ op |-> "get_cat", ok |-> TRUE, cat_id |-> cat_id,
                      status |-> 200 ]
               ELSE [ cat_id |-> cat_id ] @@ HttpFailure("get_cat", 404)
    /\ UNCHANGED << store_vars, call_vars >>

cat_frame == << users, user_reqs, activity_records, health_records, reminder_vars, now,
                ai_insights, call_vars >>

\* cats.py 112-151: POST /cats?owner_id=...: the owner must exist
CreateCat(owner_id, db) ==
    /\ Cardinality(cats) < MaxCats
    /\ IF ~UserExists(owner_id)
       THEN /\ resp' = HttpFailure("create_cat", 404)
            /\ UNCHANGED cats
       ELSE IF db = "commit_fails"
       THEN /\ resp' = HttpFailure("create_cat", 500)
            /\ UNCHANGED cats
       ELSE /\ cats' = cats \cup
                 { [ Cat(CatIdPool[Cardinality(cats) - 1], TRUE)
                       EXCEPT !.owner_id = owner_id ] }
            /\ resp' = [ op |-> "create_cat", ok |-> TRUE, status |-> 200 ]
    /\ UNCHANGED cat_frame

\* cats.py 154-183: PUT /cats/{cat_id}: the fields of the body are set on the
\* active cat, and updated_at is stamped
UpdateCat(cat_id, db) ==
    /\ IF ActiveCat(cat_id) = { }
       THEN /\ resp' = [ cat_id |-> cat_id ] @@ HttpFailure("update_cat", 404)
            /\ UNCHANGED cats
       ELSE IF db = "commit_fails"
       THEN /\ resp' = [ cat_id |-> cat_id ] @@ HttpFailure("update_cat", 500)
            /\ UNCHANGED cats
       ELSE /\ cats' = { IF c.id = cat_id /\ c.is_active
                         THEN [ c EXCEPT !.updated_at = Some(now) ] ELSE c :
                         c \in cats }
            /\ resp' = [ op |-> "update_cat", ok |-> TRUE, cat_id |-> cat_id,
                         status |-> 200 ]
    /\ UNCHANGED cat_frame

\* a deletion that does not look at is_active
delete_cat_AnyRow(cat_id, db) ==
    IF ~CatExists(cat_id)
    THEN [ cats |-> cats, status |-> 404 ]
    ELSE IF db = "commit_fails"
    THEN [ cats |-> cats, status |-> 500 ]
    ELSE [ cats |-> { IF c.id = cat_id
                      THEN [ c EXCEPT !.is_active = FALSE, !.updated_at = Some(now) ]
                      ELSE c : c \in cats },
           status |-> 200 ]

\* cats.py 186-210: DELETE /cats/{cat_id}: the active cat of that id is marked
\* inactive and stamped; no active cat of that id is a 404; a failing commit is
\* rolled back and answered 500
delete_cat(cat_id, db) ==
    IF ActiveCat(cat_id) = { }
    THEN [ cats |-> cats, status |-> 404 ]
    ELSE IF db = "commit_fails"
    THEN [ cats |-> cats, status |-> 500 ]
    ELSE [ cats |-> { IF c.id = cat_id /\ c.is_active
                      THEN [ c EXCEPT !.is_active = FALSE, !.updated_at = Some(now) ]
                      ELSE c : c \in cats },
           status |-> 200 ]

DeleteCat(cat_id, db) ==
    LET d == delete_cat(cat_id, db) IN
    /\ cats' = d.cats
    /\ resp' = [ op |-> "delete_cat", ok |-> d.status = 200, cat_id |-> cat_id,
                 status |-> d.status ]
    /\ UNCHANGED cat_frame

\* cat ids a caller passes: those of the rows, and one of no row
KnownCatIds == { c.id : c \in cats } \cup { "c9" }

NextCats ==
    \/ Tick
    \/ \E o \in { "u1", "u7" }, db \in { "ok", "commit_fails" } : CreateCat(o, db)
    \/ \E o \in { None, Some("u1") } : GetCats(o)
    \/ \E id \in KnownCatIds : GetCat(id)
    \/ \E id \in KnownCatIds, db \in { "ok", "commit_fails" } : UpdateCat(id, db)
    \/ \E id \in KnownCatIds, db \in { "ok", "commit_fails" } : DeleteCat(id, db)
    \/ \E id \in KnownCatIds : GetCatStats(id, 30)

SpecCats == InitEmptyStore /\ [][NextCats]_vars


-----------------------------------------------------------------------------
(* Properties of the soft delete, checked under SpecCats *)

\* the soft-deleted cats
Inactive(cs) == { c \in cs : ~c.is_active }

\* C20: once a cat is soft-deleted its row stays in the store, unchanged and
\* inactive; GET /cats does not list it, GET /cats/{id} answers 404, and another
\* DELETE of its id answers 404 and changes nothing; a DELETE that succeeds
\* leaves the row of the cat in the store with is_active = false.  (resp is
\* the response of the last operation; a step that leaves now alone is an
\* operation, the other steps are the passing of time.)
C20_SoftDelete ==
    [][ /\ \A c \in Inactive(cats) :
             /\ c \in cats'
             /\ resp' # None /\ resp'.op = "get_cats" => c.id \notin resp'.value
             /\ resp' # None /\ resp'.op = "get_cat" /\ resp'.cat_id = c.id
                   => ~resp'.ok /\ resp'.status = 404
             /\ now' = now /\ resp'.op = "delete_cat" /\ resp'.cat_id = c.id
                   => ~resp'.ok /\ resp'.status = 404 /\ cats' = cats
        /\ now' = now /\ resp'.op = "delete_cat" /\ resp'.ok
             => /\ \E c \in cats' \ cats : c.id = resp'.cat_id /\ ~c.is_active
                /\ { c.id : c \in cats' } = { c.id : c \in cats }
                /\ Cardinality(cats') = Cardinality(cats) ]_vars

\* C20 witness: the cat c1 was deleted through DELETE /cats/c1 (it is inactive
\* and stamped), and the DELETE of c1 that followed was answered 404
C20_Witness ==
    /\ resp # None
    /\ resp.op = "delete_cat"
    /\ resp.cat_id = "c1"
    /\ resp.status = 404
    /\ \E c \in cats : c.id = "c1" /\ ~c.is_active /\ c.updated_at # None


-----------------------------------------------------------------------------
(* Lookups of a cat by id after its soft delete *)

\* health.py 136-180: POST /health: the cat must exist (whatever its
\* is_active), then the record is added and committed
CreateHealthRecordEndpoint(cat_id, record_type, value) ==
    /\ Len(health_records) < MaxHealthRecords
    /\ IF CatExists(cat_id)
       THEN /\ health_records' =
                 Append(health_records, Health(cat_id, record_type, value, 0))
            /\ resp' = [ op |-> "health.create_health_record", ok |-> TRUE,
                         cat_id |-> cat_id, status |-> 200 ]
       ELSE /\ resp' = [ cat_id |-> cat_id ]
                         @@ HttpFailure("health.create_health_record", 404)
            /\ UNCHANGED health_records
    /\ UNCHANGED health_frame

\* the body of a POST /reminders for a cat
ReminderFor(cat_id) ==
    [ cat_id |-> cat_id, type |-> "food", frequency |-> "daily", priority |-> 1,
      scheduled_times |-> << [ hour |-> 9, minute |-> 0, day_of_week |-> None ] >> ]

NextSoftDelete ==
    \/ \E id \in { "c1", "c9" } : DeleteCat(id, "ok")
    \/ \E id \in { "c1", "c9" } : GetCat(id)
    \/ \E id \in { "c1", "c9" } : UpdateCat(id, "ok")
    \/ \E id \in { "c1", "c9" } : GetCatStats(id, 30)
    \/ \E id \in { "c1", "c9" } : GetCatData(id)
    \/ \E id \in { "c1", "c9" } : GetHealthTrends(id)
    \/ \E id \in { "c1", "c9" } : CreateActivity(id, 0, MaxActivities)
    \/ \E id \in { "c1", "c9" } : CreateHealthRecordEndpoint(id, "weight", Some(100))
    \/ \E id \in { "c1", "c9" } : CreateReminder(ReminderFor(id), "ok")
    \/ \E id \in { "c1", "c9" } :
          ToolsCreateReminder(id, "food", << Time0900 >>, "daily", "ok")

SpecSoftDelete == InitEmptyStore /\ [][NextSoftDelete]_vars

\* the cats soft-deleted by DELETE /cats/{id}: inactive, and stamped by the
\* deletion
SoftDeleted == { c.id : c \in { d \in Inactive(cats) : d.updated_at # None } }

\* the operations that look a cat up by id
CatLookups ==
    { "get_cat", "update_cat", "delete_cat", "get_cat_stats", "get_cat_data",
      "get_health_trends", "create_activity", "health.create_health_record",
      "create_reminder", "tools.create_reminder" }

\* C19: an operation that looks up a cat deleted by DELETE /cats/{id} treats the
\* cat as absent: it fails (the DELETE that deleted the cat aside).
C19_SoftDeletedCatIsAbsent ==
    /\ resp # None
    /\ resp.op \in CatLookups
    /\ "cat_id" \in DOMAIN resp
    /\ resp.cat_id \in SoftDeleted
    /\ resp.op # "delete_cat"
    => ~resp.ok


-----------------------------------------------------------------------------
(* Reminders and the activities that reference them *)

\* reminders.py 313-338: DELETE /reminders/{reminder_id}.  The time rows are
\* deleted, then the reminder.  Reminder.activities has no delete cascade
\* (models/reminder.py 81) and ActivityRecord.reminder_id is a NOT NULL foreign
\* key (models/activity.py 28): with an activity of the reminder the flush
\* raises, and the except clause rolls the deletion of the time rows back.
delete_reminder(id, db) ==
    LET failed_at ==
            CASE ~ReminderExists(id) -> "reminder"
              [] \E k \in DOMAIN activity_records :
                     "reminder_id" \in DOMAIN activity_records[k]
                       /\ activity_records[k].reminder_id = id -> "references"
              [] db = "commit_fails" -> "commit"
              [] OTHER -> "none"
    IN  IF failed_at = "reminder"
        THEN [ reminders |-> reminders, reminder_times |-> reminder_times,
               pending |-> db_pending, failed_at |-> failed_at, status |-> 404 ]
        ELSE IF failed_at \in { "references", "commit" }
        THEN [ reminders |-> reminders, reminder_times |-> reminder_times,
               pending |-> Rollback(db_pending), failed_at |-> failed_at,
               status |-> 500 ]
        ELSE [ reminders |-> [ reminders EXCEPT ![id] = None ],
               reminder_times |->
                   SelectSeq(reminder_times, LAMBDA t: t.reminder_id # id),
               pending |-> << >>, failed_at |-> failed_at, status |-> 200 ]

DeleteReminder(id, db) ==
    LET d == delete_reminder(id, db) IN
    /\ reminders' = d.reminders
    /\ reminder_times' = d.reminder_times
    /\ db_pending' = d.pending
    /\ resp' = [ op |-> "delete_reminder", ok |-> d.status = 200, id |-> id,
                 failed_at |-> d.failed_at, status |-> d.status ]
    /\ UNCHANGED reminder_frame

\* an activity is added whatever its reminder_id
create_activity_NoForeignKey(data, db) ==
    LET failed_at ==
            CASE ~CatExists(data.cat_id) -> "cat"
              [] data.type \notin CatCareTypes -> "type"
              [] db = "commit_fails" -> "commit"
              [] OTHER -> "none"
        activity == [ reminder_id |-> data.reminder_id, type |-> data.type,
                      scheduled_time |-> data.scheduled_time ]
                      @@ Activity(data.cat_id, "pending", 0)
    IN  IF failed_at = "cat"
        THEN [ rows |-> activity_records, pending |-> db_pending,
               failed_at |-> failed_at, status |-> 404 ]
        ELSE IF failed_at # "none"
        THEN [ rows |-> activity_records, pending |-> Rollback(db_pending),
               failed_at |-> failed_at, status |-> 500 ]
        ELSE [ rows |-> Commit(activity_records, << activity >>),
               pending |-> << >>, failed_at |-> failed_at, status |-> 200 ]

\* activities.py 142-190: POST /activities with its reminder_id and type.  A
\* missing cat is answered 404; a type outside CatCareType (ValueError), a
\* reminder_id of no reminder (the foreign key of models/activity.py 28, raised
\* by the commit) and a failing commit are rolled back and answered 500.
create_activity(data, db) ==
    LET failed_at ==
            CASE ~CatExists(data.cat_id) -> "cat"
              [] data.type \notin CatCareTypes -> "type"
              [] ~ReminderExists(data.reminder_id) -> "reminder"
              [] db = "commit_fails" -> "commit"
              [] OTHER -> "none"
        activity == [ reminder_id |-> data.reminder_id, type |-> data.type,
                      scheduled_time |-> data.scheduled_time ]
                      @@ Activity(data.cat_id, "pending", 0)
    IN  IF failed_at = "cat"
        THEN [ rows |-> activity_records, pending |-> db_pending,
               failed_at |-> failed_at, status |-> 404 ]
        ELSE IF failed_at # "none"
        THEN [ rows |-> activity_records, pending |-> Rollback(db_pending),
               failed_at |-> failed_at, status |-> 500 ]
        ELSE [ rows |-> Commit(activity_records, << activity >>),
               pending |-> << >>, failed_at |-> failed_at, status |-> 200 ]

CreateActivityRecord(data, db) ==
    LET c == create_activity(data, db) IN
    /\ Len(activity_records) < MaxActivities
    /\ activity_records' = c.rows
    /\ db_pending' = c.pending
    /\ resp' = [ op |-> "create_activity", ok |-> c.status = 200,
                 failed_at |-> c.failed_at, status |-> c.status ]
    /\ UNCHANGED << cats, users, user_reqs, health_records, reminder_vars, now, ai_interactions,
                    ai_insights, pc, req, session_id, request_type, context, response, result,
                    http, trace, n_calls >>

\* bodies of POST /activities: the reminder ids of the table and one of no
\* row, an existing and a missing cat, a valid and an invalid type, an earlier
\* and a later scheduled time
ActivityCreates ==
    { [ reminder_id |-> r, cat_id |-> c, type |-> t, scheduled_time |-> st ] :
        r \in 1..(Len(reminders) + 1), c \in { "c1", "c9" }, t \in { "food", "walk" },
        st \in { 1, 2 } }

\* bodies of PUT /reminders/{id} that give the schedule, give an empty one, or
\* leave it out
ScheduleUpdates ==
    { [ scheduled_times |-> << [ hour |-> 18, minute |-> 30, day_of_week |-> Some(6) ],
                               [ hour |-> 7, minute |-> 15, day_of_week |-> None ] >> ],
      [ scheduled_times |-> << >> ],
      [ priority |-> 2 ] }

NextReferences ==
    \/ CreateReminder(ReminderFor("c1"), "ok")
    \/ \E id \in 1..(Len(reminders) + 1), db \in { "ok", "commit_fails" } :
          DeleteReminder(id, db)
    \/ \E data \in ActivityCreates, db \in { "ok", "commit_fails" } :
          CreateActivityRecord(data, db)
    \/ \E id \in { "c1", "c9" } : DeleteCat(id, "ok")

SpecReferences == InitEmptyStore /\ [][NextReferences]_vars

NextSchedules ==
    \/ CreateReminder(ReminderFor("c1"), "ok")
    \/ \E id \in 1..(Len(reminders) + 1), data \in ScheduleUpdates,
          db \in { "ok", "commit_fails" } : UpdateReminder(id, data, db)
    \/ \E id \in 1..(Len(reminders) + 1), db \in { "ok", "commit_fails" } :
          DeleteReminder(id, db)

SpecSchedules == InitEmptyStore /\ [][NextSchedules]_vars

\* C21: every stored ActivityRecord's reminder_id names an existing Reminder and
\* its cat_id names an existing Cat.
C21_ActivityReferencesHold ==
    \A k \in DOMAIN activity_records :
        /\ ReminderExists(activity_records[k].reminder_id)
        /\ CatExists(activity_records[k].cat_id)

\* C21 witness: the DELETE of a reminder that an activity references was
\* refused, after the cat of the activity was soft-deleted
C21_Witness ==
    /\ resp # None
    /\ resp.op = "delete_reminder"
    /\ resp.failed_at = "references"
    /\ Len(activity_records) > 0
    /\ \E c \in cats : c.id = "c1" /\ ~c.is_active /\ c.updated_at # None


\* C22: an update_reminder that succeeds leaves the reminder with exactly the
\* given ReminderTime rows when scheduled_times is given, and with the rows it
\* had when it is not; after a delete_reminder that succeeds no ReminderTime
\* row of the reminder remains.
C22_ScheduleReplacedWholesale ==
    [][ /\ \A id \in 1..(Len(reminders) + 1), data \in ScheduleUpdates,
             db \in { "ok", "commit_fails" } :
             UpdateReminder(id, data, db) /\ update_reminder(id, data, db).status = 200
               => TimesOf(reminder_times', id) =
                    IF "scheduled_times" \in DOMAIN data
                    THEN TimeRows(id, data.scheduled_times)
                    ELSE TimesOf(reminder_times, id)
        /\ \A id \in 1..(Len(reminders) + 1), db \in { "ok", "commit_fails" } :
             DeleteReminder(id, db) /\ delete_reminder(id, db).status = 200
               => TimesOf(reminder_times', id) = << >> ]_vars

\* C22 witness: reminder 1, created with the single time 09:00, holds the two
\* rows of an update and nothing else, and reminder 2 was deleted with its rows
C22_Witness ==
    /\ ReminderExists(1)
    /\ reminders[1].updated_at # None
    /\ Len(TimesOf(reminder_times, 1)) = 2
    /\ \A k \in DOMAIN reminder_times : reminder_times[k].hour # 9
    /\ 2 \in DOMAIN reminders /\ reminders[2] = None
    /\ TimesOf(reminder_times, 2) = << >>
    /\ resp.op = "delete_reminder" /\ resp.ok


-----------------------------------------------------------------------------
(* Daily insights: CatAlertAgent.generate_daily_insights *)

MaxInsights == 3
InsightExpiryDays == 1

\* a JSON value of the completion that is an object, with its fields, and one
\* that is not (a string, a number, a list)
JsonObject(fields) == [ is_object |-> TRUE, fields |-> fields ]
JsonOther == [ is_object |-> FALSE ]

\* llm_service.py 203-243: generate_health_insights.  chat_completion raises,
\* or its content is not JSON (the default dict, with no recommendation, is
\* returned), or it is JSON and is returned as parsed, object or not.
generate_health_insights(llm) ==
    CASE llm.kind = "api_error" -> LLMError
      [] llm.kind = "text" -> Ok(JsonObject([ recommendations |-> << >> ]))
      [] OTHER -> Ok(llm.content)

\* agent.py 401-411: the AIInsight of one recommendation (now counts days)
AIInsight(cat_id, insight_data) ==
    [ cat_id |-> cat_id, insight_type |-> "daily",
      title |-> Get(insight_data, "title", Some("daily insight")),
      priority |-> Get(insight_data, "priority", "medium"),
      analysis_period |-> "1d",
      expires_at |-> now + InsightExpiryDays ]

\* the step at which generate_daily_insights raises: get_cat_data for a cat of
\* no row, the LLM call, insights_data.get or insight_data.get on a value that
\* is not an object (AttributeError), the commit (refused by the store, or a
\* null title against nullable=False of models/ai_interaction.py 78)
InsightsFailAt(cat_id, llm, db) ==
    LET data == generate_health_insights(llm) IN
    CASE ~get_cat_data(cat_id, TRUE).ok -> "cat"
      [] ~data.ok -> "llm"
      [] ~data.value.is_object -> "insights_data"
      [] \E k \in DOMAIN Get(data.value.fields, "recommendations", << >>) :
            ~data.value.fields.recommendations[k].is_object -> "recommendation"
      [] db = "commit_fails" -> "commit"
      [] \E k \in DOMAIN Get(data.value.fields, "recommendations", << >>) :
            AIInsight(cat_id, data.value.fields.recommendations[k].fields).title = None
                -> "commit"
      [] OTHER -> "none"

\* the insights added to the session before the step that raises
InsightsAdded(cat_id, llm, failed_at) ==
    IF failed_at \in { "cat", "llm", "insights_data" } THEN << >>
    ELSE LET recs == Get(generate_health_insights(llm).value.fields,
                         "recommendations", << >>)
             first_bad == IF \E k \in DOMAIN recs : ~recs[k].is_object
                          THEN CHOOSE k \in DOMAIN recs :
                                  /\ ~recs[k].is_object
                                  /\ \A j \in 1..(k - 1) : recs[j].is_object
                          ELSE Len(recs) + 1
         IN  [ k \in 1..(first_bad - 1) |-> AIInsight(cat_id, recs[k].fields) ]

\* every insight is committed as it is added
generate_daily_insights_CommitsEach(cat_id, llm, db) ==
    LET failed_at == InsightsFailAt(cat_id, llm, db)
        added == InsightsAdded(cat_id, llm, failed_at)
    IN  IF failed_at \in { "cat", "llm", "insights_data", "commit" }
        THEN [ rows |-> ai_insights, pending |-> Rollback(db_pending \o added),
               failed_at |-> failed_at, result |-> Ok(<< >>) ]
        ELSE IF failed_at = "recommendation"
        THEN [ rows |-> Commit(ai_insights, added), pending |-> Rollback(db_pending),
               failed_at |-> failed_at, result |-> Ok(<< >>) ]
        ELSE [ rows |-> Commit(ai_insights, added), pending |-> << >>,
               failed_at |-> failed_at, result |-> Ok(added) ]

\* agent.py 381-422: generate_daily_insights.  The three tool calls, the LLM
\* call, one AIInsight added per recommendation, one commit; any exception is
\* logged, the session is rolled back and [] is returned.
generate_daily_insights(cat_id, llm, db) ==
    LET failed_at == InsightsFailAt(cat_id, llm, db)
        added == InsightsAdded(cat_id, llm, failed_at)
    IN  IF failed_at # "none"
        THEN [ rows |-> ai_insights, pending |-> Rollback(db_pending \o added),
               failed_at |-> failed_at, result |-> Ok(<< >>) ]
        ELSE [ rows |-> Commit(ai_insights, added), pending |-> << >>,
               failed_at |-> failed_at, result |-> Ok(added) ]

GenerateDailyInsights(cat_id, llm, db) ==
    LET g == generate_daily_insights(cat_id, llm, db) IN
    /\ Len(ai_insights) < MaxInsights
    /\ ai_insights' = g.rows
    /\ db_pending' = g.pending
    /\ resp' = [ op |-> "generate_daily_insights", ok |-> g.result.ok,
                 failed_at |-> g.failed_at,
                 returned |-> IF g.result.ok THEN Len(g.result.value) ELSE 0 ]
    /\ UNCHANGED << cats, users, user_reqs, activity_records, health_records, reminder_vars, now,
                    ai_interactions, pc, req, session_id, request_type, context,
                    response, result, http, trace, n_calls >>

\* recommendations of a completion: well formed, without a title, with a null
\* title, and not an object
RecTitled == JsonObject([ title |-> Some("t"), priority |-> "high" ])
RecBare == JsonObject(EmptyDict)
RecNullTitle == JsonObject([ title |-> None ])

\* outcomes of the health-insights LLM call
InsightCompletions ==
    { [ kind |-> "api_error" ], [ kind |-> "text" ],
      [ kind |-> "json", content |-> JsonOther ],
      [ kind |-> "json", content |-> JsonObject(EmptyDict) ] }
    \cup { [ kind |-> "json", content |-> JsonObject([ recommendations |-> recs ]) ] :
             recs \in { << >>, << RecTitled >>, << RecTitled, RecBare >>,
                        << RecTitled, JsonOther >>, << RecBare, RecNullTitle >> } }

\* the cats of a call: active, soft-deleted, of no row
InsightCats == { "c1", "c2", "c9" }

NextInsights ==
    \/ Tick
    \/ \E cat_id \in InsightCats, llm \in InsightCompletions,
          db \in { "ok", "commit_fails" } : GenerateDailyInsights(cat_id, llm, db)

SpecInsights == InitEmptyStore /\ [][NextInsights]_vars

\* the recommendations the LLM returned
Recommendations(llm) ==
    LET data == generate_health_insights(llm) IN
    IF data.ok /\ data.value.is_object
    THEN Get(data.value.fields, "recommendations", << >>) ELSE << >>

\* the failures of a call: missing cat, LLM error, malformed completion or
\* recommendation, commit failure
InsightsFailure(cat_id, llm, db) ==
    \/ ~CatExists(cat_id)
    \/ llm.kind = "api_error"
    \/ llm.kind = "json" /\ ~llm.content.is_object
    \/ \E k \in DOMAIN Recommendations(llm) :
          \/ ~Recommendations(llm)[k].is_object
          \/ Get(Recommendations(llm)[k].fields, "title", Some("x")) = None
    \/ db = "commit_fails"

\* C23: generate_daily_insights never raises; a call that fails returns the
\* empty list, persists no AIInsight and leaves nothing pending; a call that
\* succeeds persists one AIInsight per recommendation, each expiring one day
\* after the call, and returns as many.
C23_DailyInsightsNeverRaise ==
    [][ \A cat_id \in InsightCats, llm \in InsightCompletions,
           db \in { "ok", "commit_fails" } :
           GenerateDailyInsights(cat_id, llm, db) =>
             /\ resp'.ok
             /\ db_pending' = << >>
             /\ IF InsightsFailure(cat_id, llm, db)
                THEN resp'.returned = 0 /\ ai_insights' = ai_insights
                ELSE /\ resp'.returned = Len(Recommendations(llm))
                     /\ Len(ai_insights') = Len(ai_insights) + Len(Recommendations(llm))
                     /\ SubSeq(ai_insights', 1, Len(ai_insights)) = ai_insights
                     /\ \A k \in (Len(ai_insights) + 1)..Len(ai_insights') :
                           /\ ai_insights'[k].cat_id = cat_id
                           /\ ai_insights'[k].expires_at = now + 1 ]_vars

\* C23 witness: a call whose second recommendation was malformed returned
\* nothing and left the two insights of an earlier call as they were
C23_Witness ==
    /\ resp # None
    /\ resp.op = "generate_daily_insights"
    /\ resp.failed_at = "recommendation"
    /\ resp.returned = 0
    /\ Len(ai_insights) = 2
    /\ db_pending = << >>


-----------------------------------------------------------------------------
(* The body of an error response, checked under SpecCats *)

\* C24: the error response to a request for a missing cat has status 404 and
\* a body of error_code, message and details, as the handler of
\* CatAlertException builds it for NotFoundError.
C24_ErrorBodyShape ==
    /\ resp # None
    /\ resp.op \in { "get_cat", "update_cat" }
    /\ ~resp.ok
    /\ resp.status = 404
    => resp.body = cat_alert_exception_handler(NotFoundError("Cat", resp.cat_id)).content


-----------------------------------------------------------------------------
(* The order of the series analyze_health_trend hands to the trend calculator *)

NextTrendOrder ==
    \/ CreateReminder(ReminderFor("c1"), "ok")
    \/ \E data \in ActivityCreates, db \in { "ok", "commit_fails" } :
          CreateActivityRecord(data, db)
    \/ \E cat_id \in { "c1", "c9" } : AnalyzeHealthTrend(cat_id)

SpecTrendOrder == InitEmptyStore /\ [][NextTrendOrder]_vars

\* the activity records analyze_health_trend passes to _calculate_health_trends
\* (tools.py 155-161): the rows of the cat in the window, as the query without
\* order_by returns them
ActivitySeries(cat_id) == InWindow(activity_records, cat_id, 30)

\* C25: the activity records analyze_health_trend hands to the trend calculator
\* are ordered by scheduled time.
C25_ActivitiesInScheduledOrder ==
    /\ resp # None
    /\ resp.op = "analyze_health_trend"
    => LET acts == ActivitySeries(resp.cat_id) IN
       \A i, j \in DOMAIN acts :
           i < j => acts[i].scheduled_time <= acts[j].scheduled_time

-----------------------------------------------------------------------------
(* The activity-duration trend: tools.py 298-309 over series whose durations
   were set through PUT /activities/{id} (activities.py 193-242, which stores
   any integer) *)

\* an activity of cat c1 with the given actual_duration
Timed(d) == [ Activity("c1", "completed", 0) EXCEPT !.actual_duration = d ]

\* the durations of the records at the two ends of a series
EdgeDurations ==
    { None, Some(0), Some(2), Some(3), Some(10), Some(17), Some(18), Some(0 - 10) }

\* the records between the two ends: one short of the trend's minimum, all alike
MiddleDurations == { None, Some(10), Some(0 - 10) }

Edges == { << >> } \cup { << Timed(d) >> : d \in EdgeDurations }

DurationSeries ==
    { first \o [ i \in 1..(ActivityMinRecords - 1) |-> Timed(m) ] \o last :
        first \in Edges, last \in Edges, m \in MiddleDurations }

InitDurations ==
    /\ \E acts \in DurationSeries : InitStore([ acts |-> acts, health |-> << >> ])
    /\ InitCall
    /\ resp = None

NextDurations ==
    \/ \E d \in EdgeDurations : UpdateActivity(1, [ actual_duration |-> d ])
    \/ AnalyzeHealthTrend("c1")

SpecDurations == InitDurations /\ [][NextDurations]_vars

\* the sum of the window's durations, a missing or zero duration counting 0;
\* the mean is this sum over the window's 7 records
WindowSum(acts) ==
    SumSeq([ i \in DOMAIN acts |->
               IF acts[i].actual_duration = None THEN 0
               ELSE acts[i].actual_duration[1] ])

RecentSum == WindowSum(LastN(ActivitySeries("c1"), 7))
OlderSum == WindowSum(FirstN(ActivitySeries("c1"), 7))

DurationTrendRead ==
    /\ resp # None
    /\ resp.op = "analyze_health_trend"

-----------------------------------------------------------------------------
(* The type a successful response reports: agent.py 69-110, checked under Spec *)

\* the handler type a label text spells, "unrecognized" if it spells none
TypeSpelled(label) ==
    IF label = SIMPLE_QUERY THEN "simple_query"
    ELSE IF label = COMPLEX_ANALYSIS THEN "complex_analysis"
    ELSE IF label = REMINDER_MANAGEMENT THEN "reminder_management"
    ELSE IF label = HEALTH_CONSULTATION THEN "health_consultation"
    ELSE IF label = GENERAL THEN "general"
    ELSE "unrecognized"

\* the call returned a success response
Succeeded ==
    /\ Finished
    /\ result # None
    /\ result.success

\* C27: in a successful response the reported type, and the interaction_type of
\* the row stored for the call, are the type of the handler that ran
C27_TypeIsHandlerType ==
    Succeeded =>
        /\ TypeSpelled(result.type) = response.type
        /\ trace.stored = "committed" =>
             TypeSpelled(ai_interactions[Len(ai_interactions)].interaction_type)
                 = response.type

-----------------------------------------------------------------------------
(* The order of the steps of process_user_request: agent.py 62-118, checked
   under Spec *)

PipelineOrder == << "classify", "context", "handler", "store", "respond" >>

IsPrefixOf(s, t) == Len(s) <= Len(t) /\ s = SubSeq(t, 1, Len(s))

\* the positions a request may move between: the endpoint rejects it before the
\* agent is called, or each step goes to the next one or leaves the call
PipelineMoves ==
    { << "idle", "done" >>, << "idle", "classify" >>, << "done", "classify" >>,
      << "classify", "context" >>, << "context", "dispatch" >>,
      << "dispatch", "store" >> }
    \cup { << from, to >> : from \in { "classify", "context", "dispatch", "store" },
                           to \in { "returned", "done", "raised", "propagated" } }
    \cup { << "returned", "done" >>, << "raised", "done" >> }

\* the classifier's call raised or its completion had no content
ClassificationFailed ==
    /\ trace.steps # << >>
    /\ trace.label = None

StepsInOrder ==
    /\ IsPrefixOf(trace.steps, PipelineOrder)
    /\ trace.llm_calls <= 2
    /\ Len(trace.handlers) <= 1
    /\ RowsAdded \in { 0, 1 }
    /\ ClassificationFailed =>
         /\ trace.steps = << "classify" >>
         /\ context = None
         /\ trace.handlers = << >>
         /\ trace.stored = "no"
         /\ RowsAdded = 0
    /\ trace.stored # "no" =>
         /\ response # None
         /\ trace.steps = PipelineOrder
         /\ result # None /\ result.success

\* C28: the steps run in the order classify, build context, handler, store,
\* respond, none twice; after a failed classification no lookup, handler or
\* store happens; the AIInteraction row is written only once the handler has
\* returned and with the step that returns the response; a request makes at
\* most two chat completions
C28_FixedStepOrder ==
    /\ []StepsInOrder
    /\ [][ /\ pc' # pc => << pc, pc' >> \in PipelineMoves
           /\ ai_interactions' # ai_interactions =>
                /\ pc = "store"
                /\ response # None
                /\ result = None
                /\ result' # None ]_vars

\* C28 witness: a call went through the five steps with two chat completions
\* and its row was committed
C28_Witness ==
    /\ Finished
    /\ trace.steps = PipelineOrder
    /\ trace.llm_calls = 2
    /\ trace.stored = "committed"
    /\ RowsAdded = 1

\* a failed classification ended a call (the other case of C28)
C28_ClassificationFailedReached ==
    /\ Finished
    /\ ClassificationFailed

-----------------------------------------------------------------------------
(* Completion and its time stamp: activities.py 142-284 and tools.py 197-238,
   checked under SpecStamps *)

MaxStampActivities == 1

NextStamps ==
    \/ Tick
    \/ \E c \in { "c1", "c9" } : CreateActivity(c, 0, MaxStampActivities)
    \/ \E i \in ActivityIds,
          d \in { [ status |-> "completed" ], [ status |-> "pending" ],
                  [ status |-> "done" ], [ actual_duration |-> Some(10) ] } :
          UpdateActivity(i, d)
    \/ \E i \in ActivityIds, d \in { None, Some(20) } :
          CompleteActivity(i, None, None, d)
    \/ \E i \in ActivityIds, st \in { "completed", "skipped", "done" } :
          UpdateActivityStatus(i, st, None, None)

SpecStamps == InitEmptyStore /\ [][NextStamps]_vars

\* every completed activity has a completion time
CompletedHaveTime ==
    \A i \in DOMAIN activity_records :
        activity_records[i].status = "completed" =>
            activity_records[i].complete_time # None

\* C29: after any sequence of create_activity, update_activity,
\* complete_activity and update_activity_status every completed activity has a
\* complete_time, and an activity just created is pending with no complete_time
C29_CompletedHasCompleteTime ==
    /\ []CompletedHaveTime
    /\ [][ Len(activity_records') > Len(activity_records) =>
             /\ activity_records'[Len(activity_records')].status = "pending"
             /\ activity_records'[Len(activity_records')].complete_time = None ]_vars

\* C29 witness: an activity completed through update_activity_status and set
\* back to pending was completed again through PUT /activities/{id}, which kept
\* the earlier complete_time
C29_Witness ==
    /\ resp # None
    /\ resp.op = "update_activity"
    /\ resp.ok
    /\ Len(activity_records) = 1
    /\ activity_records[1].status = "completed"
    /\ activity_records[1].complete_time # None
    /\ activity_records[1].complete_time # Some(now)

-----------------------------------------------------------------------------
(* Users: app/api/api_v1/endpoints/users.py.  Each request runs in a session of
   its own; between its query and its commit another request may run.
   The table is the User of the data model (id, username, email), which names
   no uniqueness constraint: a commit that would store a second row with a
   username or an email already present is accepted, or refused with an
   IntegrityError where the columns are declared unique. *)

MaxUsers == 3

UserNames == { "ann", "bob" }
UserEmails == { "ann@cat", "bob@cat" }

\* the id a new row gets: uuid.uuid4, distinct from the ids in the table
NewUserId == CHOOSE id \in { "u2", "u3", "u4", "u5" } : ~UserExists(id)

\* users.py 88-90: a row with this username or this email
Taken(data) ==
    \E u \in users : u.username = data.username \/ u.email = data.email

\* two rows of the table with the same username or the same email
SharesName(rows) ==
    \E u, v \in rows : u # v /\ (u.username = v.username \/ u.email = v.email)

\* requests that passed create_user's query and hold a new row
PendingCreates == { s \in UserSessions : user_reqs[s] # None /\ user_reqs[s].op = "create_user" }

users_frame ==
    << cats, activity_records, health_records, reminder_vars, now, ai_insights,
       call_vars >>

\* users.py 85-109: create_user up to db.add: the query for a user with the
\* username or the email, 400 if there is one, else the row is built
StartCreateUser(s, data) ==
    /\ user_reqs[s] = None
    /\ Cardinality(users) + Cardinality(PendingCreates) < MaxUsers
    /\ IF Taken(data)
       THEN /\ resp' = [ op |-> "create_user", ok |-> FALSE, status |-> 400,
                         body |-> [ detail |-> "Username or email already exists" ] ]
            /\ UNCHANGED user_reqs
       ELSE /\ user_reqs' = [ user_reqs EXCEPT ![s] =
                                [ op |-> "create_user", username |-> data.username,
                                  email |-> data.email ] ]
            /\ UNCHANGED resp
    /\ UNCHANGED << users, users_frame >>

\* users.py 131-139: update_user up to the commit: the row is loaded, 404 if
\* there is none, and the fields the client sent are set on it
StartUpdateUser(s, user_id, update_data) ==
    /\ user_reqs[s] = None
    /\ IF ~UserExists(user_id)
       THEN /\ resp' = HttpFailure("update_user", 404)
            /\ UNCHANGED user_reqs
       ELSE /\ user_reqs' = [ user_reqs EXCEPT ![s] =
                                [ op |-> "update_user",
                                  loaded |-> CHOOSE u \in users : u.id = user_id,
                                  update_data |-> update_data ] ]
            /\ UNCHANGED resp
    /\ UNCHANGED << users, users_frame >>

\* the row a request's commit writes: the INSERT of the new row, or the UPDATE
\* of the columns whose value differs from the one the session loaded
RowWritten(r) ==
    IF r.op = "create_user" THEN User(NewUserId, r.username, r.email)
    ELSE LET current == CHOOSE u \in users : u.id = r.loaded.id
             changed(field) == /\ field \in DOMAIN r.update_data
                               /\ r.update_data[field] # r.loaded[field]
         IN  [ current EXCEPT
                 !.username = IF changed("username") THEN r.update_data.username ELSE @,
                 !.email = IF changed("email") THEN r.update_data.email ELSE @,
                 !.updated_at = Some(now) ]

\* the table once the row is written
RowsWritten(r) ==
    IF r.op = "create_user" THEN users \cup { RowWritten(r) }
    ELSE { u \in users : u.id # r.loaded.id } \cup { RowWritten(r) }

\* users.py 110-122 and 141-154: db.commit(), db.refresh(), return; any exception
\* is rolled back and answered 500.  db: the commit succeeds, fails, or is
\* refused because username or email would be stored twice.
commit_user(r, db) ==
    IF db = "ok" THEN [ rows |-> RowsWritten(r), status |-> 200 ]
    ELSE [ rows |-> users, status |-> 500 ]

CommitOutcomes(r) ==
    { "ok", "commit_fails" }
    \cup (IF SharesName(RowsWritten(r)) /\ ~SharesName(users)
          THEN { "unique_violation" } ELSE { })

CommitUser(s, db) ==
    /\ user_reqs[s] # None
    /\ db \in CommitOutcomes(user_reqs[s])
    /\ LET c == commit_user(user_reqs[s], db) IN
       /\ users' = c.rows
       /\ resp' = IF c.status = 200
                  THEN [ op |-> user_reqs[s].op, ok |-> TRUE, status |-> 200,
                         user |-> RowWritten(user_reqs[s]) ]
                  ELSE HttpFailure(user_reqs[s].op, 500)
    /\ user_reqs' = [ user_reqs EXCEPT ![s] = None ]
    /\ UNCHANGED users_frame

UserCreates == [ username : UserNames, email : UserEmails ]

UserUpdates ==
    { [ username |-> n ] : n \in UserNames } \cup { [ email |-> e ] : e \in UserEmails }

NextUsers ==
    \/ \E s \in UserSessions, data \in UserCreates : StartCreateUser(s, data)
    \/ \E s \in UserSessions, id \in { "u1", "u2", "u9" }, d \in UserUpdates :
          StartUpdateUser(s, id, d)
    \/ \E s \in UserSessions, db \in { "ok", "commit_fails", "unique_violation" } :
          CommitUser(s, db)

SpecUsers == InitEmptyStore /\ [][NextUsers]_vars

\* C30: no two users share a username or an email, and create_user for a
\* username or an email that a user has is answered 400 and adds no user,
\* whether the name was taken when the request ran its query or when it
\* committed
C30_NamesStayUnique ==
    /\ [] ~SharesName(users)
    /\ [][ /\ \A s \in UserSessions, data \in UserCreates :
                StartCreateUser(s, data) /\ Taken(data) =>
                    resp'.status = 400 /\ users' = users
           /\ \A s \in UserSessions, db \in { "ok", "commit_fails", "unique_violation" } :
                ( /\ CommitUser(s, db)
                  /\ user_reqs[s].op = "create_user"
                  /\ Taken(user_reqs[s]) ) =>
                    resp'.status = 400 /\ users' = users ]_vars

\* the first part of C30 alone
C30_NoSharedName == ~SharesName(users)

\* the rejection of C30 alone, for stores that refuse a second row
C30_TakenIsRejected ==
    [][ \A s \in UserSessions :
          ( /\ CommitUser(s, "unique_violation")
            /\ user_reqs[s].op = "create_user" ) =>
              resp'.status = 400 ]_vars

\* create_user whose query finds the name is rejected without a new row
C30_QueryRejects ==
    [][ \A s \in UserSessions, data \in UserCreates :
          StartCreateUser(s, data) /\ Taken(data) =>
              resp'.status = 400 /\ users' = users ]_vars

=============================================================================
